---- MODULE Spec2Model ----
(***************************************************************************)
(* Model of the Supplier Sustainability Assessment Tool: the               *)
(* question-catalogue loader (csvParser, concatenated into                 *)
(* src/src/components/Settings.tsx), the score aggregation                 *)
(* (src/src/utils/scoring.ts), the migration helpers                       *)
(* (src/src/utils/scoreNormalizer.ts), the category weights of the         *)
(* Settings view, the assessment endpoint (src/server/index.js) and the    *)
(* needs-review flags of the AI assessment view.                           *)
(*                                                                         *)
(* Text is modelled as a sequence of one-character strings, so that the    *)
(* regular expressions of the source can be evaluated position by          *)
(* position.  JavaScript numbers are modelled as exact rationals (a        *)
(* numerator and a positive denominator); IEEE-754 rounding error is not   *)
(* modelled, except in normalizeWeights and in the weighted score computed *)
(* from its result, whose numbers are binary floating-point numbers        *)
(* m * 2^e with FloatBits bits of precision, rounded to nearest, ties to   *)
(* even.  The weights of the exact aggregation are carried in hundredths.  *)
(***************************************************************************)
EXTENDS Integers, Sequences, FiniteSets, TLC

VARIABLES normCall, normPrev,
          scores, weights, criteria, scoreOp, scoreRes,
          guideForm, guideIn, guideRaw, guideOptions, guideDone,
          rowLog, loadCriteria, categoryCounts, subCategoryCounts,
          skippedCount, skippedReasons, loadDone, rowFile, loadResults,
          nwIn, nwOut, nwCalls,
          categoryWeights, tempWeights, storedWeights, settingsOp, saveCount,
          editCount,
          assessReq, assessPos, results, totalTokens, replies, response,
          migCall, migScores, migDefs, migIn, migOut, migCalls,
          scaleScores, scaleWeights, scaleRaw, scaleNormalized, scaleDone,
          aiNeedsReview, manualReviewFlags, lastToggle, toggleCount, aiFlags

normVars == <<normCall, normPrev>>
scoreVars == <<scores, weights, criteria, scoreOp, scoreRes>>
guideVars == <<guideForm, guideIn, guideRaw, guideOptions, guideDone>>
loadVars == <<rowLog, loadCriteria, categoryCounts, subCategoryCounts,
              skippedCount, skippedReasons, loadDone, rowFile, loadResults>>
nwVars == <<nwIn, nwOut, nwCalls>>
settingsVars ==
    <<categoryWeights, tempWeights, storedWeights, settingsOp, saveCount,
      editCount>>
assessVars ==
    <<assessReq, assessPos, results, totalTokens, replies, response>>
migrateVars == <<migCall, migScores, migDefs, migIn, migOut, migCalls>>
scaleVars ==
    <<scaleScores, scaleWeights, scaleRaw, scaleNormalized, scaleDone>>
reviewVars ==
    <<aiNeedsReview, manualReviewFlags, lastToggle, toggleCount, aiFlags>>
appVars == <<settingsVars, assessVars, migrateVars, scaleVars, reviewVars>>
coreVars == <<normVars, scoreVars, guideVars, loadVars, nwVars>>
otherThanSettings ==
    <<coreVars, assessVars, migrateVars, scaleVars, reviewVars>>
otherThanAssess ==
    <<coreVars, settingsVars, migrateVars, scaleVars, reviewVars>>
otherThanMigrate ==
    <<coreVars, settingsVars, assessVars, scaleVars, reviewVars>>
otherThanScale ==
    <<coreVars, settingsVars, assessVars, migrateVars, reviewVars>>
otherThanReview ==
    <<coreVars, settingsVars, assessVars, migrateVars, scaleVars>>
vars == <<normVars, scoreVars, guideVars, loadVars, nwVars, appVars>>

(***************************************************************************)
(* Bounds of the explored inputs.                                          *)
(***************************************************************************)
MaxRaw == 7
MaxBelow == 2
MaxOldMax == 6
MaxScoreValue == 5
MaxEntries == 3
MaxGuideValue == 5
MaxRows == 3
MaxPasses == 2
MaxWeight == 6
MaxCalls == 2
MaxSaves == 2
MaxEdits == 3
MaxCriteria == 2
MaxMigValue == 8
MaxMigMax == 8
MaxMigScore == 6
MaxMigrations == 2
MaxScaleWeight == 3
MaxToggles == 4
\* Bits of precision of the floating-point numbers of normalizeWeights; the
\* source's doubles have 53.
FloatBits == 10

(***************************************************************************)
(* Numbers.                                                                *)
(***************************************************************************)
Max2(a, b) == IF a >= b THEN a ELSE b
Min2(a, b) == IF a <= b THEN a ELSE b

RECURSIVE Gcd(_, _)
Gcd(a, b) == IF b = 0 THEN a ELSE Gcd(b, a % b)

Abs(a) == IF a < 0 THEN 0 - a ELSE a

\* A JavaScript number as an exact rational in lowest terms.
Rat(n, d) == LET g == Gcd(Abs(n), d) IN [n |-> n \div g, d |-> d \div g]
RInt(k) == [n |-> k, d |-> 1]
RZero == RInt(0)
RAdd(a, b) == Rat(a.n * b.d + b.n * a.d, a.d * b.d)
RMul(a, b) == Rat(a.n * b.n, a.d * b.d)
\* a / b for b > 0
RDiv(a, b) == Rat(a.n * b.d, a.d * b.n)
RPos(a) == a.n > 0

\* Math.round of the rational n/d (d > 0): the nearest integer, a half
\* rounding towards +infinity, i.e. floor(n/d + 1/2).
MathRound(n, d) == (2 * n + d) \div (2 * d)

\* Math.max(1, Math.min(4, x))
Clamp14(x) == Max2(1, Min2(4, x))

(***************************************************************************)
(* normalizeScore of the loader (Settings.tsx:189-221).  parseInt of a     *)
(* digit run is never NaN, so the isNaN tests are always false here.       *)
(***************************************************************************)
normalizeScoreInvalidHigh(oldValue, oldMax) ==
    IF oldMax < 1 \/ oldValue < 1 THEN 4
    ELSE IF oldMax = 4 THEN oldValue
    ELSE IF oldMax = 3 THEN Clamp14(MathRound(2 + (oldValue - 1) * 3, 2))
    ELSE IF oldMax = 5 THEN Clamp14(MathRound(4 + (oldValue - 1) * 3, 4))
    ELSE IF oldMax <= 1 THEN 1
    ELSE Clamp14(MathRound((oldMax - 1) + (oldValue - 1) * 3, oldMax - 1))

normalizeScore(oldValue, oldMax) ==
    IF oldMax < 1 \/ oldValue < 1 THEN 1
    ELSE IF oldMax = 4 THEN oldValue
    ELSE IF oldMax = 3 THEN Clamp14(MathRound(2 + (oldValue - 1) * 3, 2))
    ELSE IF oldMax = 5 THEN Clamp14(MathRound(4 + (oldValue - 1) * 3, 4))
    ELSE IF oldMax <= 1 THEN 1
    ELSE Clamp14(MathRound((oldMax - 1) + (oldValue - 1) * 3, oldMax - 1))

(***************************************************************************)
(* Text: a string is a sequence of one-character strings.                  *)
(***************************************************************************)
Digits == {"0", "1", "2", "3", "4", "5", "6", "7", "8", "9"}
IsDigit(c) == c \in Digits

\* Length of the longest run of digits of s that starts at position i.
RECURSIVE DigitRunLen(_, _)
DigitRunLen(s, i) ==
    IF i <= Len(s) /\ IsDigit(s[i]) THEN 1 + DigitRunLen(s, i + 1) ELSE 0

\* key.match(/^(\d+)/)?.[1]: the leading digit run, <<>> when there is none.
LeadingDigits(s) == SubSeq(s, 1, DigitRunLen(s, 1))

LowerLetters == <<"a", "b", "c", "d", "e", "f", "g", "h", "i", "j", "k", "l",
                  "m", "n", "o", "p", "q", "r", "s", "t", "u", "v", "w", "x",
                  "y", "z">>
UpperLetters == <<"A", "B", "C", "D", "E", "F", "G", "H", "I", "J", "K", "L",
                  "M", "N", "O", "P", "Q", "R", "S", "T", "U", "V", "W", "X",
                  "Y", "Z">>
IsLower(c) == \E i \in 1 .. 26 : LowerLetters[i] = c
IsUpper(c) == \E i \in 1 .. 26 : UpperLetters[i] = c
\* [a-z] under the i flag
IsLetter(c) == IsLower(c) \/ IsUpper(c)
\* [a-zA-Z0-9]
IsAlnum(c) == IsLetter(c) \/ IsDigit(c)
\* \s
IsSpace(c) == c \in {" ", "\t", "\n", "\r"}

ToLowerChar(c) ==
    IF IsUpper(c) THEN LowerLetters[CHOOSE i \in 1 .. 26 : UpperLetters[i] = c]
    ELSE c
ToUpperChar(c) ==
    IF IsLower(c) THEN UpperLetters[CHOOSE i \in 1 .. 26 : LowerLetters[i] = c]
    ELSE c
ToUpperCase(s) == [i \in 1 .. Len(s) |-> ToUpperChar(s[i])]

\* Length of the longest run of whitespace of s that starts at position i.
RECURSIVE SpaceRunLen(_, _)
SpaceRunLen(s, i) ==
    IF i <= Len(s) /\ IsSpace(s[i]) THEN 1 + SpaceRunLen(s, i + 1) ELSE 0

\* Length of the longest run of whitespace of s that ends at position i.
RECURSIVE SpaceRunLenBack(_, _)
SpaceRunLenBack(s, i) ==
    IF i >= 1 /\ IsSpace(s[i]) THEN 1 + SpaceRunLenBack(s, i - 1) ELSE 0

\* String.prototype.trim
Trim(s) ==
    LET lead == SpaceRunLen(s, 1)
    IN  IF lead = Len(s) THEN <<>>
        ELSE SubSeq(s, lead + 1, Len(s) - SpaceRunLenBack(s, Len(s)))

\* parseInt of a digit run
DigitValue(c) == CHOOSE v \in 0 .. 9 : <<"0", "1", "2", "3", "4", "5", "6",
                                         "7", "8", "9">>[v + 1] = c
RECURSIVE ParseInt(_)
ParseInt(ds) ==
    IF ds = <<>> THEN 0
    ELSE 10 * ParseInt(SubSeq(ds, 1, Len(ds) - 1)) + DigitValue(ds[Len(ds)])

\* The decimal text of a non-negative integer (template literal `${n}`).
DigitChar(v) == <<"0", "1", "2", "3", "4", "5", "6", "7", "8", "9">>[v + 1]
RECURSIVE IntToText(_)
IntToText(n) ==
    IF n < 10 THEN <<DigitChar(n)>>
    ELSE IntToText(n \div 10) \o <<DigitChar(n % 10)>>

\* s.split(sep) for a one-character separator.
RECURSIVE SplitChar(_, _)
SplitChar(s, sep) ==
    IF \A i \in 1 .. Len(s) : s[i] # sep THEN <<s>>
    ELSE LET p == CHOOSE i \in 1 .. Len(s) :
                      s[i] = sep /\ \A j \in 1 .. i - 1 : s[j] # sep
         IN  <<SubSeq(s, 1, p - 1)>> \o SplitChar(SubSeq(s, p + 1, Len(s)), sep)

\* replace(/[^a-zA-Z0-9]/g, '')
KeepAlnum(s) == SelectSeq(s, IsAlnum)

SetMax(S) == CHOOSE x \in S : \A y \in S : y <= x
SetMin(S) == CHOOSE x \in S : \A y \in S : x <= y

(***************************************************************************)
(* parseScoringGuide (Settings.tsx:224-321).  An option is a record with   *)
(* the fields value and label.                                             *)
(***************************************************************************)
NoMatch == [ok |-> FALSE, digits |-> <<>>, text |-> <<>>, end |-> 0]

\* line.match(/^(\d+)\s*=\s*(.+)$/) on a text without line terminators:
\* digits is group 1; group 2 is text up to leading whitespace, which the
\* callers trim away.
LineMatch(line) ==
    LET d == DigitRunLen(line, 1)
        e == 1 + d + SpaceRunLen(line, 1 + d)
    IN  IF d >= 1 /\ e < Len(line) /\ line[e] = "="
        THEN [ok |-> TRUE, digits |-> SubSeq(line, 1, d),
              text |-> SubSeq(line, e + 1, Len(line)), end |-> Len(line) + 1]
        ELSE NoMatch

\* \d+\s*= matches at position a of s.
DigitsEqAt(s, a) ==
    LET d == DigitRunLen(s, a)
        b == a + d + SpaceRunLen(s, a + d)
    IN  d >= 1 /\ b <= Len(s) /\ s[b] = "="

\* The lookahead (?=\s*\d+\s*=|$) holds at position q of s.
LookAheadOK(s, q) ==
    \/ q = Len(s) + 1
    \/ DigitsEqAt(s, q + SpaceRunLen(s, q))

\* The match of /(\d+)\s*=\s*([^=]+?)(?=\s*\d+\s*=|$)/ that starts at
\* position i of s: the whitespace after "=" is taken greedily (m as large
\* as possible), the label lazily (its end q as small as possible).
MatchAt(s, i) ==
    LET d == DigitRunLen(s, i)
        e == i + d + SpaceRunLen(s, i + d)
    IN  IF d = 0 \/ e > Len(s) THEN NoMatch
        ELSE IF s[e] # "=" THEN NoMatch
        ELSE LET maxSp == SpaceRunLen(s, e + 1)
                 Ends(m) == {q \in (e + m + 2) .. (Len(s) + 1) :
                                /\ \A k \in (e + 1 + m) .. (q - 1) : s[k] # "="
                                /\ LookAheadOK(s, q)}
                 ms == {m \in 0 .. maxSp : Ends(m) # {}}
             IN  IF ms = {} THEN NoMatch
                 ELSE LET m == SetMax(ms)
                          q == SetMin(Ends(m))
                      IN  [ok |-> TRUE, digits |-> SubSeq(s, i, i + d - 1),
                           text |-> SubSeq(s, e + 1 + m, q - 1), end |-> q]

\* The successive results of pattern.exec(line) from lastIndex = from - 1.
RECURSIVE ExecAll(_, _)
ExecAll(s, from) ==
    LET starts == {i \in from .. Len(s) : MatchAt(s, i).ok}
    IN  IF starts = {} THEN <<>>
        ELSE LET mt == MatchAt(s, SetMin(starts))
             IN  <<mt>> \o ExecAll(s, mt.end)

\* label.replace(/,\s*$/, '').trim() on a trimmed label
StripTrailingComma(label) ==
    IF label # <<>> /\ label[Len(label)] = ","
    THEN Trim(SubSeq(label, 1, Len(label) - 1))
    ELSE label

\* line.split(/,\s*(?=\d+\s*=)/)
RECURSIVE SplitOptions(_)
SplitOptions(s) ==
    LET seps == {p \in 1 .. Len(s) :
                    s[p] = "," /\ DigitsEqAt(s, p + 1 + SpaceRunLen(s, p + 1))}
    IN  IF seps = {} THEN <<s>>
        ELSE LET p == SetMin(seps)
                 a == p + 1 + SpaceRunLen(s, p + 1)
             IN  <<SubSeq(s, 1, p - 1)>> \o SplitOptions(SubSeq(s, a, Len(s)))

IsNonEmpty(s) == s # <<>>
TrimAll(ss) == [i \in 1 .. Len(ss) |-> Trim(ss[i])]

\* The options pushed by the multi-line loop (lines 232-240).
RECURSIVE MultiLineOptions(_)
MultiLineOptions(lines) ==
    IF lines = <<>> THEN <<>>
    ELSE LET mt == LineMatch(lines[1])
         IN  (IF mt.ok THEN <<[value |-> ParseInt(mt.digits),
                               label |-> Trim(mt.text)]>>
              ELSE <<>>) \o MultiLineOptions(Tail(lines))

\* foundMatches of the single-line loop (lines 254-262).
RECURSIVE FoundMatches(_)
FoundMatches(matches) ==
    IF matches = <<>> THEN <<>>
    ELSE LET oldValue == ParseInt(matches[1].digits)
             label == StripTrailingComma(Trim(matches[1].text))
         IN  (IF label # <<>> /\ oldValue > 0
              THEN <<[value |-> oldValue, label |-> label]>>
              ELSE <<>>) \o FoundMatches(Tail(matches))

\* The options pushed by the comma-split fallback (lines 271-281).
RECURSIVE FallbackOptions(_)
FallbackOptions(parts) ==
    IF parts = <<>> THEN <<>>
    ELSE LET mt == LineMatch(parts[1])
             oldValue == ParseInt(mt.digits)
             label == Trim(mt.text)
         IN  (IF mt.ok /\ oldValue > 0 /\ label # <<>>
              THEN <<[value |-> oldValue, label |-> label]>>
              ELSE <<>>) \o FallbackOptions(Tail(parts))

\* The raw (value, label) pairs recognised in the guide (lines 225-283).
RawOptions(guide) ==
    LET lines == SelectSeq(TrimAll(SplitChar(guide, "\n")), IsNonEmpty)
    IN  IF Len(lines) > 1 THEN MultiLineOptions(lines)
        ELSE IF Len(lines) = 1
        THEN LET foundMatches == FoundMatches(ExecAll(lines[1], 1))
             IN  IF Len(foundMatches) > 0 THEN foundMatches
                 ELSE FallbackOptions(
                          SelectSeq(TrimAll(SplitOptions(lines[1])), IsNonEmpty))
        ELSE <<>>

\* options.sort((a, b) => b.value - a.value): stable, descending by value.
RECURSIVE SortByValueDesc(_)
SortByValueDesc(opts) ==
    IF opts = <<>> THEN <<>>
    ELSE LET n == Len(opts)
             sorted == SortByValueDesc(SubSeq(opts, 1, n - 1))
             x == opts[n]
             k == Cardinality({i \in 1 .. Len(sorted) :
                                  sorted[i].value >= x.value})
         IN  SubSeq(sorted, 1, k) \o <<x>> \o SubSeq(sorted, k + 1, Len(sorted))

\* As UniqueOptionsMap, but an entry is replaced by an option of lower
\* original value.
RECURSIVE UniqueOptionsMapKeepLowest(_)
UniqueOptionsMapKeepLowest(opts) ==
    IF opts = <<>> THEN <<>>
    ELSE LET n == Len(opts)
             map == UniqueOptionsMapKeepLowest(SubSeq(opts, 1, n - 1))
             opt == opts[n]
             entry == [option |-> [value |-> opt.normalizedValue,
                                   label |-> opt.label],
                       originalValue |-> opt.originalValue]
             at == {i \in 1 .. Len(map) :
                       map[i].option.value = opt.normalizedValue}
         IN  IF at = {} THEN Append(map, entry)
             ELSE LET i == CHOOSE i \in at : TRUE
                  IN  IF opt.originalValue < map[i].originalValue
                      THEN [map EXCEPT ![i] = entry]
                      ELSE map

\* uniqueOptionsMap after the options opts (with originalValue,
\* normalizedValue, label) have been visited, as the sequence of its
\* entries in insertion order.
RECURSIVE UniqueOptionsMap(_)
UniqueOptionsMap(opts) ==
    IF opts = <<>> THEN <<>>
    ELSE LET n == Len(opts)
             map == UniqueOptionsMap(SubSeq(opts, 1, n - 1))
             opt == opts[n]
             entry == [option |-> [value |-> opt.normalizedValue,
                                   label |-> opt.label],
                       originalValue |-> opt.originalValue]
             at == {i \in 1 .. Len(map) :
                       map[i].option.value = opt.normalizedValue}
         IN  IF at = {} THEN Append(map, entry)
             ELSE LET i == CHOOSE i \in at : TRUE
                  IN  IF opt.originalValue > map[i].originalValue
                      THEN [map EXCEPT ![i] = entry]
                      ELSE map

\* As NormalizeOptions, without the removal of duplicates.
NormalizeOptionsKeepDuplicates(options) ==
    IF Len(options) = 0 THEN <<>>
    ELSE LET sorted == SortByValueDesc(options)
             oldMax == sorted[1].value
             normalized ==
                 [i \in 1 .. Len(sorted) |->
                     [value |-> normalizeScore(sorted[i].value, oldMax),
                      label |-> sorted[i].label]]
         IN  SortByValueDesc(normalized)

\* Lines 285-321: normalisation, removal of duplicates, final sort.
NormalizeOptions(options) ==
    IF Len(options) = 0 THEN <<>>
    ELSE LET sorted == SortByValueDesc(options)
             oldMax == sorted[1].value
             optionsWithOriginal ==
                 [i \in 1 .. Len(sorted) |->
                     [originalValue |-> sorted[i].value,
                      normalizedValue |-> normalizeScore(sorted[i].value, oldMax),
                      label |-> sorted[i].label]]
             map == UniqueOptionsMap(optionsWithOriginal)
             uniqueOptions == [i \in 1 .. Len(map) |-> map[i].option]
         IN  SortByValueDesc(uniqueOptions)

parseScoringGuide(guide) == NormalizeOptions(RawOptions(guide))

(***************************************************************************)
(* The row loop of loadQuestions (Settings.tsx:324-350, 381-459).  An      *)
(* absent field of a row is the empty text.                                *)
(***************************************************************************)
\* category.match(/^(\d+)\./): the digits, '' without a match.
extractCategoryId(category) ==
    LET d == DigitRunLen(category, 1)
    IN  IF d >= 1 /\ d < Len(category) /\ category[d + 1] = "."
        THEN SubSeq(category, 1, d)
        ELSE <<>>

\* category.replace(/^\d+\.\s*/, '').trim()
extractCategoryName(category) ==
    LET d == DigitRunLen(category, 1)
    IN  IF d >= 1 /\ d < Len(category) /\ category[d + 1] = "."
        THEN Trim(SubSeq(category, d + 2 + SpaceRunLen(category, d + 2),
                         Len(category)))
        ELSE Trim(category)

\* The start positions at which /(\d+)([a-z])/i matches in s.
SubMatchStarts(s) ==
    {i \in 1 .. Len(s) :
        /\ IsDigit(s[i])
        /\ i + DigitRunLen(s, i) <= Len(s)
        /\ IsLetter(s[i + DigitRunLen(s, i)])}

\* As generateCriterionId, without the truncation to 10 characters.
generateCriterionIdNoTruncate(categoryId, questionIndex, subCategory) ==
    IF SubMatchStarts(subCategory) # {}
    THEN LET i == SetMin(SubMatchStarts(subCategory))
             d == DigitRunLen(subCategory, i)
             subNum == IF categoryId # <<>> THEN categoryId
                       ELSE SubSeq(subCategory, i, i + d - 1)
             subLetter == ToLowerChar(subCategory[i + d])
         IN  subNum \o <<subLetter>> \o <<".">> \o IntToText(questionIndex)
    ELSE LET kept == KeepAlnum(subCategory)
             cleanSub == IF kept # <<>> THEN kept ELSE <<"q">>
             prefix == IF categoryId # <<>> THEN categoryId \o <<".">>
                       ELSE <<>>
         IN  prefix \o cleanSub \o <<".">> \o IntToText(questionIndex)

\* As generateCriterionId, without the '.' after the category id of the
\* fallback form.
generateCriterionIdNoDot(categoryId, questionIndex, subCategory) ==
    IF SubMatchStarts(subCategory) # {}
    THEN LET i == SetMin(SubMatchStarts(subCategory))
             d == DigitRunLen(subCategory, i)
             subNum == IF categoryId # <<>> THEN categoryId
                       ELSE SubSeq(subCategory, i, i + d - 1)
             subLetter == ToLowerChar(subCategory[i + d])
         IN  subNum \o <<subLetter>> \o <<".">> \o IntToText(questionIndex)
    ELSE LET kept == KeepAlnum(subCategory)
             cut == SubSeq(kept, 1, Min2(10, Len(kept)))
             cleanSub == IF cut # <<>> THEN cut ELSE <<"q">>
         IN  categoryId \o cleanSub \o <<".">> \o IntToText(questionIndex)

generateCriterionId(categoryId, questionIndex, subCategory) ==
    IF SubMatchStarts(subCategory) # {}
    THEN LET i == SetMin(SubMatchStarts(subCategory))
             d == DigitRunLen(subCategory, i)
             subNum == IF categoryId # <<>> THEN categoryId
                       ELSE SubSeq(subCategory, i, i + d - 1)
             subLetter == ToLowerChar(subCategory[i + d])
         IN  subNum \o <<subLetter>> \o <<".">> \o IntToText(questionIndex)
    ELSE LET kept == KeepAlnum(subCategory)
             cut == SubSeq(kept, 1, Min2(10, Len(kept)))
             cleanSub == IF cut # <<>> THEN cut ELSE <<"q">>
             prefix == IF categoryId # <<>> THEN categoryId \o <<".">>
                       ELSE <<>>
         IN  prefix \o cleanSub \o <<".">> \o IntToText(questionIndex)

DefaultOptions ==
    <<[value |-> 4, label |-> <<"E", "x", "c", "e", "l", "l", "e", "n", "t">>],
      [value |-> 3, label |-> <<"G", "o", "o", "d">>],
      [value |-> 2, label |-> <<"F", "a", "i", "r">>],
      [value |-> 1, label |-> <<"P", "o", "o", "r">>]>>

IsValidOption(opt) == opt.value >= 1 /\ opt.value <= 4

\* As RowOptions, without the default scale.
RowOptionsNoDefault(scoringGuide) ==
    SelectSeq(parseScoringGuide(scoringGuide), IsValidOption)

\* validOptions, given what parseScoringGuide returned (lines 407-427).
ValidOptions(parsed) ==
    SelectSeq(IF Len(parsed) = 0 THEN DefaultOptions ELSE parsed, IsValidOption)

\* validOptions of a row with the given scoring guide (lines 405-427).
RowOptions(scoringGuide) == ValidOptions(parseScoringGuide(scoringGuide))

\* obj[key] || 0
CountOf(counts, key) == IF key \in DOMAIN counts THEN counts[key] ELSE 0

\* obj[key] = value
Put(obj, key, value) ==
    [k \in DOMAIN obj \cup {key} |-> IF k = key THEN value ELSE obj[k]]

MEDIUM == <<"M", "E", "D", "I", "U", "M">>

\* The reason for which the row is skipped, "" when it is loaded;
\* validOptions are the row's options as RowOptions gives them.
SkipReason(row, validOptions) ==
    IF Trim(row.CATEGORY) = <<>> THEN "No CATEGORY"
    ELSE IF Trim(row.QUESTION) = <<>> THEN "No KEY EVALUATION QUESTIONS"
    ELSE IF extractCategoryId(row.CATEGORY) = <<>> THEN "No category ID"
    ELSE IF Len(validOptions) = 0 THEN "No valid options"
    ELSE ""

\* As CountSkip, forgetting the earlier skips for the reason.
CountSkipOnce(reasons, reason) == Put(reasons, reason, 1)

\* skippedReasons[reason] = (skippedReasons[reason] || 0) + 1
CountSkip(reasons, reason) == Put(reasons, reason, CountOf(reasons, reason) + 1)

(***************************************************************************)
(* Score aggregation (src/src/utils/scoring.ts).                           *)
(* A score is Null or Num(v); a score map is a function from identifiers   *)
(* to scores; a definitions map is a function from identifiers to records  *)
(* with the fields category and maxScore; an absent definitions argument   *)
(* is the empty map.                                                       *)
(***************************************************************************)
Null == <<>>
Num(v) == <<v>>
IsNull(x) == x = Null
Val(x) == x[1]

\* Object.entries / Object.keys: the keys in the object's own order.
RECURSIVE KeysOf(_)
KeysOf(S) == IF S = {} THEN <<>>
             ELSE LET k == CHOOSE k \in S : TRUE IN <<k>> \o KeysOf(S \ {k})
Entries(obj) == KeysOf(DOMAIN obj)

\* array.reduce((acc, x) => acc + x, 0)
RECURSIVE ReduceSum(_)
ReduceSum(seq) == IF seq = <<>> THEN 0 ELSE seq[1] + ReduceSum(Tail(seq))

\* The scores of the entries of keys, in order.
ScoresAt(obj, keys) == [i \in 1 .. Len(keys) |-> Val(obj[keys[i]])]

calculateTotalScoreDefaultRange(sc, crit) ==
    LET keep(id) ==
            IF IsNull(sc[id]) THEN FALSE
            ELSE Val(sc[id]) >= 1 /\ Val(sc[id]) <= 4
        validScores == ScoresAt(sc, SelectSeq(Entries(sc), keep))
    IN  IF Len(validScores) = 0 THEN RZero
        ELSE Rat(ReduceSum(validScores), Len(validScores))

calculateTotalScore(sc, crit) ==
    LET keep(id) ==
            IF IsNull(sc[id]) THEN FALSE
            ELSE IF id \in DOMAIN crit
                 THEN Val(sc[id]) >= 1 /\ Val(sc[id]) <= crit[id].maxScore
                 ELSE Val(sc[id]) >= 1 /\ Val(sc[id]) <= 4
        validScores == ScoresAt(sc, SelectSeq(Entries(sc), keep))
    IN  IF Len(validScores) = 0 THEN RZero
        ELSE Rat(ReduceSum(validScores), Len(validScores))

getCategoryScoreNoFallback(sc, categoryId, crit) ==
    LET keep(key) ==
            IF IsNull(sc[key]) THEN FALSE
            ELSE LeadingDigits(key) # <<>> /\ LeadingDigits(key) = categoryId
        categoryScores == ScoresAt(sc, SelectSeq(Entries(sc), keep))
    IN  IF Len(categoryScores) = 0 THEN RZero
        ELSE Rat(ReduceSum(categoryScores), Len(categoryScores))

\* The filter of getCategoryScore (scoring.ts:43-61): whether the entry of
\* key is counted for categoryId.
CountsEntry(sc, key, categoryId, crit) ==
    IF IsNull(sc[key]) THEN FALSE
    ELSE IF LeadingDigits(key) # <<>> /\ LeadingDigits(key) = categoryId
    THEN TRUE
    ELSE IF key \in DOMAIN crit
    THEN /\ LeadingDigits(crit[key].category) # <<>>
         /\ LeadingDigits(crit[key].category) = categoryId
    ELSE FALSE

getCategoryScore(sc, categoryId, crit) ==
    LET keep(key) == CountsEntry(sc, key, categoryId, crit)
        categoryScores == ScoresAt(sc, SelectSeq(Entries(sc), keep))
    IN  IF Len(categoryScores) = 0 THEN RZero
        ELSE Rat(ReduceSum(categoryScores), Len(categoryScores))

\* The accumulators weightedSum and totalWeight of calculateWeightedScore
\* after the categories cats (a sequence) have been visited.
RECURSIVE WeightedAcc(_, _, _, _)
WeightedAcc(sc, w, crit, cats) ==
    IF cats = <<>> THEN [weightedSum |-> RZero, totalWeight |-> RZero]
    ELSE LET n == Len(cats)
             acc == WeightedAcc(sc, w, crit, SubSeq(cats, 1, n - 1))
             categoryId == cats[n]
             weight == Rat(w[categoryId], 100)
             categoryScore == getCategoryScore(sc, categoryId, crit)
         IN  IF RPos(categoryScore)
             THEN [weightedSum |-> RAdd(acc.weightedSum,
                                        RMul(categoryScore, weight)),
                   totalWeight |-> RAdd(acc.totalWeight, weight)]
             ELSE acc

\* As WeightedAcc, but an unanswered category still adds its weight.
RECURSIVE WeightedAccCountAll(_, _, _, _)
WeightedAccCountAll(sc, w, crit, cats) ==
    IF cats = <<>> THEN [weightedSum |-> RZero, totalWeight |-> RZero]
    ELSE LET n == Len(cats)
             acc == WeightedAccCountAll(sc, w, crit, SubSeq(cats, 1, n - 1))
             categoryId == cats[n]
             weight == Rat(w[categoryId], 100)
             categoryScore == getCategoryScore(sc, categoryId, crit)
         IN  [weightedSum |-> RAdd(acc.weightedSum,
                                   RMul(categoryScore, weight)),
              totalWeight |-> RAdd(acc.totalWeight, weight)]

\* As WeightedAcc, but every answered category counts 1 in the divisor.
RECURSIVE WeightedAccUnitWeight(_, _, _, _)
WeightedAccUnitWeight(sc, w, crit, cats) ==
    IF cats = <<>> THEN [weightedSum |-> RZero, totalWeight |-> RZero]
    ELSE LET n == Len(cats)
             acc == WeightedAccUnitWeight(sc, w, crit, SubSeq(cats, 1, n - 1))
             categoryId == cats[n]
             weight == Rat(w[categoryId], 100)
             categoryScore == getCategoryScore(sc, categoryId, crit)
         IN  IF RPos(categoryScore)
             THEN [weightedSum |-> RAdd(acc.weightedSum,
                                        RMul(categoryScore, weight)),
                   totalWeight |-> RAdd(acc.totalWeight, RInt(1))]
             ELSE acc

WeightedResult(acc) ==
    IF RPos(acc.totalWeight) THEN RDiv(acc.weightedSum, acc.totalWeight)
    ELSE RZero

calculateWeightedScoreCountAll(sc, w, crit) ==
    WeightedResult(WeightedAccCountAll(sc, w, crit, Entries(w)))

calculateWeightedScoreUnitWeight(sc, w, crit) ==
    WeightedResult(WeightedAccUnitWeight(sc, w, crit, Entries(w)))

calculateWeightedScore(sc, w, crit) ==
    WeightedResult(WeightedAcc(sc, w, crit, Entries(w)))

\* As calculateAllScores, leaving out the categories that score 0.
calculateAllScoresAnsweredOnly(sc, w, crit) ==
    [totalScore |-> calculateTotalScore(sc, crit),
     weightedScore |-> calculateWeightedScore(sc, w, crit),
     categoryScores |->
         [c \in {k \in DOMAIN w : getCategoryScore(sc, k, crit) # RZero} |->
             getCategoryScore(sc, c, crit)],
     weightedCategoryScores |->
         [c \in {k \in DOMAIN w : getCategoryScore(sc, k, crit) # RZero} |->
             RMul(getCategoryScore(sc, c, crit), Rat(w[c], 100))]]

calculateAllScores(sc, w, crit) ==
    [totalScore |-> calculateTotalScore(sc, crit),
     weightedScore |-> calculateWeightedScore(sc, w, crit),
     categoryScores |->
         [c \in DOMAIN w |-> getCategoryScore(sc, c, crit)],
     weightedCategoryScores |->
         [c \in DOMAIN w |-> RMul(getCategoryScore(sc, c, crit),
                                  Rat(w[c], 100))]]

(***************************************************************************)
(* normalizeWeights (scoring.ts:123-133) in floating-point arithmetic.  A  *)
(* number is 0 or m * 2^e with 2^(FloatBits-1) <= m < 2^FloatBits; weights *)
(* are not negative here.                                                  *)
(***************************************************************************)
RECURSIVE Pow2(_)
Pow2(k) == IF k = 0 THEN 1 ELSE 2 * Pow2(k - 1)

FloatZero == [m |-> 0, e |-> 0]

\* n/d (n >= 0, d > 0) rounded to the nearest integer, a tie to the even one.
RoundHalfEven(n, d) ==
    LET q == n \div d
        r == n % d
    IN  IF 2 * r > d THEN q + 1
        ELSE IF 2 * r < d THEN q
        ELSE q + (q % 2)

\* The floating-point number nearest to (n/d) * 2^e, for n >= 0 and d > 0.
RECURSIVE FloatOf(_, _, _)
FloatOf(n, d, e) ==
    IF n = 0 THEN FloatZero
    ELSE IF n >= d * Pow2(FloatBits) THEN FloatOf(n, 2 * d, e + 1)
    ELSE IF n < d * Pow2(FloatBits - 1) THEN FloatOf(2 * n, d, e - 1)
    ELSE LET m == RoundHalfEven(n, d)
         IN  IF m = Pow2(FloatBits)
             THEN [m |-> Pow2(FloatBits - 1), e |-> e + 1]
             ELSE [m |-> m, e |-> e]

\* a + b
FloatAdd(a, b) ==
    IF a.m = 0 THEN b
    ELSE IF b.m = 0 THEN a
    ELSE LET lo == Min2(a.e, b.e)
         IN  FloatOf(a.m * Pow2(a.e - lo) + b.m * Pow2(b.e - lo), 1, lo)

\* a / b for b > 0
FloatDiv(a, b) == FloatOf(a.m, b.m, a.e - b.e)

\* Object.keys of an object with integer-like keys: ascending numeric order.
RECURSIVE IntegerKeysOf(_)
IntegerKeysOf(S) ==
    IF S = {} THEN <<>>
    ELSE LET k == CHOOSE k \in S : \A j \in S : ParseInt(k) <= ParseInt(j)
         IN  <<k>> \o IntegerKeysOf(S \ {k})

\* Object.values(w).reduce((sum, x) => sum + x, 0) over the keys ks.
RECURSIVE FloatSum(_, _)
FloatSum(w, ks) ==
    IF ks = <<>> THEN FloatZero
    ELSE FloatAdd(FloatSum(w, SubSeq(ks, 1, Len(ks) - 1)), w[ks[Len(ks)]])

\* As normalizeWeights, dividing by the number of weights.
normalizeWeightsByCount(w) ==
    IF FloatSum(w, IntegerKeysOf(DOMAIN w)) = FloatZero THEN w
    ELSE [k \in DOMAIN w |->
             FloatDiv(w[k], FloatOf(Cardinality(DOMAIN w), 1, 0))]

\* As normalizeWeights, without the division.
normalizeWeightsUnchanged(w) == w

normalizeWeights(w) ==
    IF FloatSum(w, IntegerKeysOf(DOMAIN w)) = FloatZero THEN w
    ELSE [k \in DOMAIN w |->
             FloatDiv(w[k], FloatSum(w, IntegerKeysOf(DOMAIN w)))]

(***************************************************************************)
(* Inputs of the aggregation: identifiers, category ids, score maps,       *)
(* weight maps (in hundredths) and definitions maps.                       *)
(***************************************************************************)
Id1a1 == <<"1", "a", ".", "1">>
Id1a2 == <<"1", "a", ".", "2">>
Id2b1 == <<"2", "b", ".", "1">>
IdQ1 == <<"q", ".", "1">>
ScoreIds == {Id1a1, Id1a2, Id2b1, IdQ1}

Cat1 == <<"1">>
Cat2 == <<"2">>
CategoryIds == {Cat1, Cat2}
Cat3 == <<"3">>

ScoreChoices == {Null} \cup {Num(v) : v \in 0 .. MaxScoreValue}
ScoreMaps == [ScoreIds -> ScoreChoices] \cup {<<>>}

WeightMap(a, b) == [c \in CategoryIds |-> IF c = Cat1 THEN a ELSE b]
WeightMaps == {WeightMap(60, 40), WeightMap(40, 60), WeightMap(100, 0),
               WeightMap(0, 100), WeightMap(30, 30), WeightMap(0, 0)}

\* Definitions as loadQuestions builds them: the category field is the
\* category name without its number, maxScore is 4.
NameOps == <<"O", "p", "s">>
LoadedCriteria == [id \in ScoreIds |-> [category |-> NameOps, maxScore |-> 4]]
\* Definitions restored from storage: a category field that starts with
\* digits, and other scale maxima.
NameTwo == <<"2", " ", "T", "w", "o">>
StoredCriteria ==
    [id \in {Id1a1, IdQ1} |->
        IF id = Id1a1 THEN [category |-> NameTwo, maxScore |-> 3]
        ELSE [category |-> NameTwo, maxScore |-> 5]]
NoCriteria == <<>>
CriteriaMaps == {NoCriteria, LoadedCriteria, StoredCriteria}

NoOp == [name |-> "none", cat |-> <<>>]

ScoreIdle ==
    /\ scores = <<>> /\ weights = <<>> /\ criteria = <<>>
    /\ scoreOp = NoOp /\ scoreRes = RZero

\* How a guide text was written: its entries and what joins them ("comma",
\* "line"), or "none" for a text that is not a list of entries.
NoForm == [sep |-> "none", pairs |-> <<>>]

GuideIdle ==
    /\ guideForm = NoForm
    /\ guideIn = <<>> /\ guideRaw = <<>> /\ guideOptions = <<>>
    /\ guideDone = FALSE

NwIdle == nwIn = <<>> /\ nwOut = <<>> /\ nwCalls = 0

\* localStorage without the weights item.
NoStored == [saved |-> FALSE, weights |-> <<>>]

SettingsIdle ==
    /\ categoryWeights = <<>> /\ tempWeights = <<>>
    /\ storedWeights = NoStored
    /\ settingsOp = "none" /\ saveCount = 0 /\ editCount = 0

\* No request to the assessment endpoint, and no response.
NoRequest ==
    [supplierName |-> <<>>, hasKey |-> FALSE, hasCriteria |-> FALSE,
     criteria |-> <<>>]
NoResponse == [status |-> 0]

AssessIdle ==
    /\ assessReq = NoRequest /\ assessPos = 0
    /\ results = <<>> /\ totalTokens = 0 /\ replies = <<>>
    /\ response = NoResponse

\* No call of the migration helpers.
NoMigCall == [v |-> <<>>, m |-> 0, r |-> <<>>, made |-> FALSE]

MigrateIdle ==
    /\ migCall = NoMigCall
    /\ migScores = <<>> /\ migDefs = <<>>
    /\ migIn = <<>> /\ migOut = <<>> /\ migCalls = 0

ScaleIdle ==
    /\ scaleScores = <<>> /\ scaleWeights = <<>>
    /\ scaleRaw = FloatZero /\ scaleNormalized = FloatZero
    /\ scaleDone = FALSE

NoToggle == [id |-> <<>>, before |-> FALSE, after |-> FALSE, made |-> FALSE]

ReviewIdle ==
    /\ aiNeedsReview = <<>> /\ manualReviewFlags = <<>>
    /\ lastToggle = NoToggle /\ toggleCount = 0
    /\ aiFlags = {}

AppIdle ==
    SettingsIdle /\ AssessIdle /\ MigrateIdle /\ ScaleIdle /\ ReviewIdle

LoadIdle ==
    /\ rowLog = <<>> /\ loadCriteria = <<>>
    /\ categoryCounts = <<>> /\ subCategoryCounts = <<>>
    /\ skippedCount = 0 /\ skippedReasons = <<>>
    /\ loadDone = FALSE
    /\ rowFile = <<>> /\ loadResults = <<>>

(***************************************************************************)
(* Specification SpecNorm: calls of normalizeScore on bounded integers.    *)
(* normCall is the latest call and its result, normPrev the one before.    *)
(***************************************************************************)
NoCall == [v |-> 0, m |-> 0, r |-> 0, made |-> FALSE]

RawValues == (0 - MaxBelow) .. MaxRaw
OldMaxes == 0 .. MaxOldMax

NormIdle == normCall = NoCall /\ normPrev = NoCall

InitNorm ==
    NormIdle /\ ScoreIdle /\ GuideIdle /\ LoadIdle /\ NwIdle /\ AppIdle

CallNormalizeScore ==
    \E v \in RawValues, m \in OldMaxes :
        /\ normPrev' = normCall
        /\ normCall' = [v |-> v, m |-> m, r |-> normalizeScore(v, m),
                        made |-> TRUE]
        /\ UNCHANGED <<scoreVars, guideVars, loadVars, nwVars, appVars>>

NextNorm == CallNormalizeScore

SpecNorm == InitNorm /\ [][NextNorm]_vars

(***************************************************************************)
(* Specification SpecScore: one call of an aggregation function on a       *)
(* score map, a weight map and a definitions map drawn from the bounded    *)
(* input sets.                                                             *)
(***************************************************************************)
InitScore ==
    /\ NormIdle /\ GuideIdle /\ LoadIdle /\ NwIdle /\ AppIdle
    /\ scores \in ScoreMaps
    /\ weights \in WeightMaps
    /\ criteria \in CriteriaMaps
    /\ scoreOp = NoOp
    /\ scoreRes = RZero

CallCalculateTotalScore ==
    /\ scoreOp = NoOp
    /\ scoreOp' = [name |-> "total", cat |-> <<>>]
    /\ scoreRes' = calculateTotalScore(scores, criteria)
    /\ UNCHANGED <<scores, weights, criteria, normVars, nwVars, guideVars,
                   loadVars, appVars>>

CallGetCategoryScore ==
    /\ scoreOp = NoOp
    /\ \E categoryId \in CategoryIds :
        /\ scoreOp' = [name |-> "category", cat |-> categoryId]
        /\ scoreRes' = getCategoryScore(scores, categoryId, criteria)
    /\ UNCHANGED <<scores, weights, criteria, normVars, nwVars, guideVars,
                   loadVars, appVars>>

CallCalculateWeightedScore ==
    /\ scoreOp = NoOp
    /\ scoreOp' = [name |-> "weighted", cat |-> <<>>]
    /\ scoreRes' = calculateWeightedScore(scores, weights, criteria)
    /\ UNCHANGED <<scores, weights, criteria, normVars, nwVars, guideVars,
                   loadVars, appVars>>

CallCalculateAllScores ==
    /\ scoreOp = NoOp
    /\ scoreOp' = [name |-> "all", cat |-> <<>>]
    /\ scoreRes' = calculateAllScores(scores, weights, criteria)
    /\ UNCHANGED <<scores, weights, criteria, normVars, nwVars, guideVars,
                   loadVars, appVars>>

NextScore ==
    \/ CallCalculateTotalScore
    \/ CallGetCategoryScore
    \/ CallCalculateWeightedScore
    \/ CallCalculateAllScores

SpecScore == InitScore /\ [][NextScore]_vars

ScaleMaxima == {3, 4, 5}

C9_Monotonic ==
    (/\ normCall.made /\ normPrev.made
     /\ normCall.m = normPrev.m
     /\ normCall.m \in ScaleMaxima
     /\ normPrev.v <= normCall.v) => normPrev.r <= normCall.r

C9_Witness ==
    /\ normCall.made /\ normPrev.made
    /\ normCall.m = 3 /\ normPrev.m = 3
    /\ normPrev.v < 1 /\ normCall.v = 2
    /\ normPrev.r = 1 /\ normCall.r = 3

\* The general rule of the specification: round(1 + (v-1)*3/(m-1)) clamped
\* to [1,4].
GeneralRule(v, m) == Clamp14(MathRound((m - 1) + (v - 1) * 3, m - 1))

NwValues ==
    {FloatOf(k, 1, 0) : k \in 0 .. MaxWeight}
        \cup {FloatOf(k, 10, 0) : k \in 1 .. MaxWeight}
NwInputs == [{Cat1, Cat2, Cat3} -> NwValues]

InitWeights ==
    /\ NormIdle /\ ScoreIdle /\ GuideIdle /\ LoadIdle /\ AppIdle
    /\ nwIn \in NwInputs
    /\ nwOut = <<>>
    /\ nwCalls = 0

CallNormalizeWeights ==
    /\ nwCalls < MaxCalls
    /\ \E w \in {IF nwCalls = 0 THEN nwIn ELSE nwOut} :
        /\ nwIn' = w
        /\ nwOut' = normalizeWeights(w)
    /\ nwCalls' = nwCalls + 1
    /\ UNCHANGED <<normVars, scoreVars, guideVars, loadVars, appVars>>

NextWeights == CallNormalizeWeights

SpecWeights == InitWeights /\ [][NextWeights]_vars

(***************************************************************************)
(* Scoring-guide texts: up to MaxEntries entries '<int>=<label>' joined by *)
(* ", " or by a line break, and a few irregular texts.  The values 1 and 2 *)
(* also come with a label that ends with a comma.                          *)
(***************************************************************************)
GuideLabels == {<<"a">>, <<"b", ",", " ", "2", " ", "c">>}
CommaLabel == <<"c", ",">>
GuidePairs ==
    {[value |-> v, label |-> label] :
        v \in 0 .. MaxGuideValue, label \in GuideLabels}
        \cup {[value |-> v, label |-> CommaLabel] : v \in 1 .. 2}

\* The text '<int>=<label>' of an entry.
EntryText(e) == IntToText(e.value) \o <<"=">> \o e.label

RECURSIVE Join(_, _)
Join(parts, sep) ==
    IF parts = <<>> THEN <<>>
    ELSE IF Len(parts) = 1 THEN parts[1]
    ELSE parts[1] \o sep \o Join(Tail(parts), sep)

PairLists == UNION {[1 .. n -> GuidePairs] : n \in 1 .. MaxEntries}
GuideForms ==
    {[sep |-> sep, pairs |-> pairs] :
        sep \in {"comma", "line"}, pairs \in PairLists}

\* The guide text of a form.
FormText(form) ==
    Join([i \in 1 .. Len(form.pairs) |-> EntryText(form.pairs[i])],
         IF form.sep = "comma" THEN <<",", " ">> ELSE <<"\n">>)

IrregularGuides ==
    {<<>>,
     <<"n", "/", "a">>,
     <<"1", "=", " ", "2", "=", "x">>,
     <<"1", "=", "a", "=", "b">>,
     <<"1", "=", "=", "x", ",", " ", "2", "=", "b">>,
     <<" ", "1", " ", "=", " ", "a", " ", ",", " ", "2", " ", "=", " ", "b",
       " ">>,
     <<"1", "0", "=", "a", ",", " ", "5", "=", "b", ",", " ", "1", "=", "c">>,
     <<"0", "=", "a", "\n", "0", "=", "b">>,
     <<"7", "=", "a", "\n", "\n", "x", "\n", " ", "2", " ", "=", "b">>}

(***************************************************************************)
(* Specification SpecGuide: the options the loader builds for one row's    *)
(* scoring guide.                                                          *)
(***************************************************************************)
InitGuide ==
    /\ NormIdle /\ ScoreIdle /\ LoadIdle /\ NwIdle /\ AppIdle
    /\ \/ guideForm \in GuideForms /\ guideIn = FormText(guideForm)
       \/ guideForm = NoForm /\ guideIn \in IrregularGuides
    /\ guideRaw = <<>> /\ guideOptions = <<>>
    /\ guideDone = FALSE

BuildRowOptions ==
    /\ ~guideDone
    /\ \E raw \in {RawOptions(guideIn)} :
        /\ guideRaw' = raw
        /\ guideOptions' = ValidOptions(NormalizeOptions(raw))
    /\ guideDone' = TRUE
    /\ UNCHANGED <<guideForm, guideIn, normVars, nwVars, scoreVars, loadVars,
                   appVars>>

NextGuide == BuildRowOptions

SpecGuide == InitGuide /\ [][NextGuide]_vars

(***************************************************************************)
(* Rows of the question file.                                              *)
(***************************************************************************)
Row(category, subCategory, priority, question, scoringGuide) ==
    [CATEGORY |-> category, SUBCATEGORY |-> subCategory,
     PRIORITY |-> priority, QUESTION |-> question, GUIDE |-> scoringGuide]

CatOne == <<"1", ".", " ", "A">>
CatTwo == <<"2", ".", " ", "B">>
CatTwelve == <<"1", "2", ".", "D">>
CatNoDot == <<"3", " ", "C">>
CatBlank == <<" ">>
Sub1a == <<"1", "a">>
Sub1aX == <<"1", "a", " ", "x">>
Sub2B == <<"2", "B">>
SubEmpty == <<>>
SubAB == <<"a", "b">>
SubADashB == <<"a", "-", "b">>
SubDigits == <<"7">>
SubLong == <<"a", "b", "c", "d", "e", "f", "g", "h", "i", "j", "k", "l">>
QuestionText == <<"Q", "?">>
NoText == <<>>
GuideLine == <<"1", "=", "a", ",", " ", "2", "=", "b", ",", " ", "3", "=", "c">>
GuideLines == <<"5", "=", "a", "\n", "4", "=", "b", "\n", "1", "=", "c">>
GuideNotApplicable == <<"n", "/", "a">>

RowChoices ==
    {Row(CatOne, s, NoText, QuestionText, NoText) :
        s \in {Sub1a, Sub1aX, Sub2B, SubEmpty, SubAB, SubADashB}}
    \cup {Row(CatTwo, Sub1a, NoText, QuestionText, NoText),
          Row(CatTwelve, SubDigits, NoText, QuestionText, NoText),
          Row(CatOne, SubLong, NoText, QuestionText, NoText),
          Row(CatNoDot, Sub1a, NoText, QuestionText, NoText),
          Row(CatBlank, Sub1a, NoText, QuestionText, NoText),
          Row(CatOne, Sub1a, <<"l", "o", "w">>, <<" ">>, NoText),
          Row(CatOne, Sub1a, <<"l", "o", "w">>, QuestionText, GuideLine),
          Row(CatTwo, Sub2B, NoText, QuestionText, GuideLines),
          Row(CatTwo, SubEmpty, NoText, QuestionText, GuideNotApplicable)}

(***************************************************************************)
(* Specification SpecLoad: up to MaxPasses calls of loadQuestions on a     *)
(* file of at most MaxRows rows.  rowLog records, for every row handled in *)
(* the current pass, the row, the identifier it was given (empty when      *)
(* skipped) and the skip reason ("" when loaded).  rowFile is the row      *)
(* sequence of the file, fixed by the first pass and read again by the     *)
(* later ones; loadResults are the maps the completed passes resolved.     *)
(***************************************************************************)
InitLoad ==
    NormIdle /\ ScoreIdle /\ GuideIdle /\ LoadIdle /\ NwIdle /\ AppIdle

\* categoryId, subCategoryKey, questionIndex and criterionId of a row
\* (lines 396, 434-449), the last two given the subCategoryCounts so far.
RowCategoryId(row) == extractCategoryId(row.CATEGORY)

RowSubCategoryKey(row) == RowCategoryId(row) \o <<"-">> \o row.SUBCATEGORY

RowQuestionIndex(counts, row) == CountOf(counts, RowSubCategoryKey(row)) + 1

RowCriterionId(counts, row) ==
    generateCriterionId(RowCategoryId(row), RowQuestionIndex(counts, row),
                        row.SUBCATEGORY)

\* The definition stored for a row (lines 451-458).
RowDefinition(row, validOptions) ==
    [category |-> extractCategoryName(row.CATEGORY),
     subCategory |-> row.SUBCATEGORY,
     priority |-> ToUpperCase(IF row.PRIORITY # <<>>
                              THEN row.PRIORITY ELSE MEDIUM),
     question |-> Trim(row.QUESTION),
     options |-> validOptions,
     maxScore |-> 4]

\* The rows results.data may hold at the position the row loop has reached.
NextRows ==
    IF loadResults = <<>>
    THEN IF Len(rowLog) < MaxRows THEN RowChoices ELSE {}
    ELSE IF Len(rowLog) < Len(rowFile) THEN {rowFile[Len(rowLog) + 1]} ELSE {}

LoadRow ==
    /\ ~loadDone
    /\ \E row \in NextRows : \E validOptions \in {RowOptions(row.GUIDE)} :
      /\ rowFile' = IF loadResults = <<>> THEN Append(rowFile, row)
                    ELSE rowFile
      /\ IF SkipReason(row, validOptions) # ""
        THEN /\ skippedCount' = skippedCount + 1
             /\ skippedReasons' =
                    CountSkip(skippedReasons, SkipReason(row, validOptions))
             /\ rowLog' = Append(rowLog, [row |-> row, id |-> <<>>,
                                          reason |->
                                              SkipReason(row, validOptions)])
             /\ UNCHANGED <<loadCriteria, categoryCounts, subCategoryCounts>>
        ELSE /\ subCategoryCounts' =
                    Put(subCategoryCounts, RowSubCategoryKey(row),
                        RowQuestionIndex(subCategoryCounts, row))
             /\ categoryCounts' =
                    Put(categoryCounts, RowCategoryId(row),
                        CountOf(categoryCounts, RowCategoryId(row)) + 1)
             /\ loadCriteria' =
                    Put(loadCriteria, RowCriterionId(subCategoryCounts, row),
                        RowDefinition(row, validOptions))
             /\ rowLog' =
                    Append(rowLog,
                           [row |-> row,
                            id |-> RowCriterionId(subCategoryCounts, row),
                            reason |-> ""])
             /\ UNCHANGED <<skippedCount, skippedReasons>>
    /\ UNCHANGED <<loadDone, loadResults, normVars, nwVars, appVars, scoreVars,
                   guideVars>>

\* resolve(criteria), once the row loop has gone through the file.
ResolveLoad ==
    /\ ~loadDone
    /\ loadResults = <<>> \/ Len(rowLog) = Len(rowFile)
    /\ loadDone' = TRUE
    /\ loadResults' = Append(loadResults, loadCriteria)
    /\ UNCHANGED <<rowLog, loadCriteria, categoryCounts, subCategoryCounts,
                   skippedCount, skippedReasons, rowFile, normVars, nwVars,
                   scoreVars, guideVars, appVars>>

\* As StartLoad, but subCategoryCounts outlives the pass.
StartLoadKeepCounters ==
    /\ loadDone
    /\ Len(loadResults) < MaxPasses
    /\ rowLog' = <<>> /\ loadCriteria' = <<>>
    /\ categoryCounts' = <<>>
    /\ skippedCount' = 0 /\ skippedReasons' = <<>>
    /\ loadDone' = FALSE
    /\ UNCHANGED <<subCategoryCounts, rowFile, loadResults, normVars, nwVars,
                   scoreVars, guideVars, appVars>>

\* loadQuestions is called again on the same file: the complete callback
\* creates criteria, the counters and the skip statistics anew (lines
\* 373-379).
StartLoad ==
    /\ loadDone
    /\ Len(loadResults) < MaxPasses
    /\ rowLog' = <<>> /\ loadCriteria' = <<>>
    /\ categoryCounts' = <<>> /\ subCategoryCounts' = <<>>
    /\ skippedCount' = 0 /\ skippedReasons' = <<>>
    /\ loadDone' = FALSE
    /\ UNCHANGED <<rowFile, loadResults, normVars, nwVars, appVars, scoreVars,
                   guideVars>>

NextLoad == LoadRow \/ ResolveLoad \/ StartLoad

SpecLoad == InitLoad /\ [][NextLoad]_vars

(***************************************************************************)
(* Reference definitions for the aggregation claims, stated over sets.     *)
(***************************************************************************)
RECURSIVE SumScores(_)
SumScores(S) ==
    IF S = {} THEN 0
    ELSE LET id == CHOOSE id \in S : TRUE
         IN  Val(scores[id]) + SumScores(S \ {id})

MeanScore(S) == IF S = {} THEN RZero ELSE Rat(SumScores(S), Cardinality(S))

MaxScoreOf(id) == IF id \in DOMAIN criteria THEN criteria[id].maxScore ELSE 4

AnsweredIds == {id \in DOMAIN scores : ~IsNull(scores[id])}

\* The entries with a score inside [1, maxScore] of their own definition.
ValidIds ==
    {id \in AnsweredIds :
        Val(scores[id]) >= 1 /\ Val(scores[id]) <= MaxScoreOf(id)}

\* The answered entries that belong to category c: by the identifier's
\* leading digits, else by the leading digits of the definition's category.
AttributedIds(c) ==
    {id \in AnsweredIds :
        \/ LeadingDigits(id) = c
        \/ /\ LeadingDigits(id) # c
           /\ id \in DOMAIN criteria
           /\ LeadingDigits(criteria[id].category) = c}

CategoryMean(c) == MeanScore(AttributedIds(c))

RECURSIVE WeightSumOver(_)
WeightSumOver(Q) ==
    IF Q = {} THEN 0
    ELSE LET c == CHOOSE c \in Q : TRUE
         IN  weights[c] + WeightSumOver(Q \ {c})

RECURSIVE WeightedMeanSumOver(_)
WeightedMeanSumOver(Q) ==
    IF Q = {} THEN RZero
    ELSE LET c == CHOOSE c \in Q : TRUE
         IN  RAdd(RMul(CategoryMean(c), Rat(weights[c], 100)),
                  WeightedMeanSumOver(Q \ {c}))

\* sum(categoryScore_c * weight_c) / sum(weight_c) over the categories Q,
\* and 0 when Q is empty or its weights sum to 0.
WeightedOver(Q) ==
    IF Q = {} \/ WeightSumOver(Q) = 0 THEN RZero
    ELSE RDiv(WeightedMeanSumOver(Q), Rat(WeightSumOver(Q), 100))

AnsweredCategories == {c \in DOMAIN weights : AttributedIds(c) # {}}
PositiveCategories == {c \in DOMAIN weights : RPos(CategoryMean(c))}

\* C3 as stated: calculateWeightedScore is the weighted mean over the
\* categories that have at least one answered question, and 0 when there is
\* no such category.
C3_WeightedOverAnswered ==
    scoreOp.name = "weighted" => scoreRes = WeightedOver(AnsweredCategories)

\* C3 amended: calculateWeightedScore is the weighted mean over the
\* categories whose category score is greater than 0 (a category without an
\* answered question is left out of numerator and denominator), and 0 when
\* no category qualifies or the qualifying weights sum to 0.
C3_WeightedOverPositive ==
    scoreOp.name = "weighted" => scoreRes = WeightedOver(PositiveCategories)

\* Weights {1: 0.6, 2: 0.4}, category 1 averaging 4, category 2 unanswered.
C3_Witness ==
    /\ scoreOp.name = "weighted"
    /\ weights = WeightMap(60, 40)
    /\ criteria = NoCriteria
    /\ scores # <<>>
    /\ scores[Id1a1] = Num(4) /\ scores[Id1a2] = Num(4)
    /\ scores[Id2b1] = Null
    /\ scoreRes = RInt(4)

\* C4: calculateTotalScore is the mean of exactly the entries whose score is
\* non-null and within [1, maxScore] of the entry's own definition ([1,4]
\* without a definition), and 0 when there is none, the empty score map
\* included.
C4_TotalScore ==
    scoreOp.name = "total" => scoreRes = MeanScore(ValidIds)

\* 1a.1 = 4 exceeds its own maximum 3, q.1 = 5 is within its own maximum 5,
\* 2b.1 = 5 has no definition and exceeds 4: the mean is (2 + 5) / 2.
C4_Witness ==
    /\ scoreOp.name = "total"
    /\ criteria = StoredCriteria
    /\ scores # <<>>
    /\ scores[Id1a1] = Num(4) /\ scores[Id1a2] = Num(2)
    /\ scores[Id2b1] = Num(5) /\ scores[IdQ1] = Num(5)
    /\ scoreRes = Rat(7, 2)

\* C5: getCategoryScore(scores, c, criteria) is the mean of exactly the
\* non-null entries whose identifier's leading digit run is c or, failing
\* that, whose definition's category field has leading digits c, and 0 when
\* there is none.
C5_CategoryScore ==
    scoreOp.name = "category" => scoreRes = CategoryMean(scoreOp.cat)

\* q.1 has no leading digits and reaches category 2 through its definition.
C5_Witness ==
    /\ scoreOp = [name |-> "category", cat |-> Cat2]
    /\ criteria = StoredCriteria
    /\ scores # <<>>
    /\ scores[Id1a1] = Null /\ scores[Id1a2] = Num(4)
    /\ scores[Id2b1] = Num(3) /\ scores[IdQ1] = Num(1)
    /\ scoreRes = RInt(2)

\* The score map with every out-of-range entry made unanswered.
InRangeScores ==
    [id \in DOMAIN scores |-> IF id \in ValidIds THEN scores[id] ELSE Null]

\* C6: an entry whose score lies outside [1, maxScore] never changes the
\* result of calculateTotalScore, getCategoryScore or
\* calculateWeightedScore.
C6_OutOfRangeExcluded ==
    /\ scoreOp.name = "total"
         => scoreRes = calculateTotalScore(InRangeScores, criteria)
    /\ scoreOp.name = "category"
         => scoreRes = getCategoryScore(InRangeScores, scoreOp.cat, criteria)
    /\ scoreOp.name = "weighted"
         => scoreRes = calculateWeightedScore(InRangeScores, weights, criteria)

RECURSIVE RSumOf(_, _)
RSumOf(f, Q) ==
    IF Q = {} THEN RZero
    ELSE LET c == CHOOSE c \in Q : TRUE IN RAdd(f[c], RSumOf(f, Q \ {c}))

\* C7 as stated: if every category of the weight map has at least one
\* answered question and the weights sum to 1, the weighted score is the
\* sum of the weightedCategoryScores of calculateAllScores.
C7_NoRenormalisationAnswered ==
    (/\ scoreOp.name = "all"
     /\ WeightSumOver(DOMAIN weights) = 100
     /\ \A c \in DOMAIN weights : AttributedIds(c) # {})
        => scoreRes.weightedScore =
               RSumOf(scoreRes.weightedCategoryScores, DOMAIN weights)

\* C7 amended: if every category of the weight map has a category score
\* greater than 0 and the weights sum to 1, the weighted score is the sum
\* of the weightedCategoryScores of calculateAllScores.
C7_NoRenormalisationPositive ==
    (/\ scoreOp.name = "all"
     /\ WeightSumOver(DOMAIN weights) = 100
     /\ \A c \in DOMAIN weights : RPos(scoreRes.categoryScores[c]))
        => scoreRes.weightedScore =
               RSumOf(scoreRes.weightedCategoryScores, DOMAIN weights)

\* Category 1 averages 3, category 2 scores 2: 3 * 0.6 + 2 * 0.4 = 2.6.
C7_Witness ==
    /\ scoreOp.name = "all"
    /\ weights = WeightMap(60, 40)
    /\ criteria = LoadedCriteria
    /\ scores # <<>>
    /\ scores[Id1a1] = Num(4) /\ scores[Id1a2] = Num(2)
    /\ scores[Id2b1] = Num(2)
    /\ scoreRes.weightedScore = Rat(13, 5)

(***************************************************************************)
(* Claims about the loader.                                                *)
(***************************************************************************)
LoadedRows == {i \in 1 .. Len(rowLog) : rowLog[i].reason = ""}

\* C1: in one load pass no two non-skipped rows are given the same
\* identifier, so no row's definition overwrites another row's definition.
C1_UniqueIds ==
    /\ \A i, j \in LoadedRows : i # j => rowLog[i].id # rowLog[j].id
    /\ Cardinality(DOMAIN loadCriteria) = Cardinality(LoadedRows)

\* C2: the options of every definition the loader builds have pairwise
\* distinct integer values in [1,4] in strictly descending order.
C2_OptionsInvariant ==
    guideDone =>
        /\ \A i \in 1 .. Len(guideOptions) : guideOptions[i].value \in 1 .. 4
        /\ \A i, j \in 1 .. Len(guideOptions) :
               i < j => guideOptions[i].value > guideOptions[j].value

\* A five-point guide whose raw values 4 and 3 both normalise to 3.
C2_Witness ==
    /\ guideDone
    /\ Len(guideRaw) = 3
    /\ {guideRaw[i].value : i \in 1 .. 3} = {3, 4, 5}
    /\ Len(guideOptions) = 2
    /\ guideOptions[1].value = 4 /\ guideOptions[2].value = 3

(***************************************************************************)
(* Claims about the scoring-guide parser.                                  *)
(***************************************************************************)
RawIndices == 1 .. Len(guideRaw)
RawOldMax == SetMax({guideRaw[i].value : i \in RawIndices})

\* The raw options that normalise to the canonical value v.
CollisionGroup(v) ==
    {i \in RawIndices : normalizeScore(guideRaw[i].value, RawOldMax) = v}

\* C11: the option kept for a canonical value carries the label of a raw
\* option of highest raw value among the raw options that normalise to
\* that canonical value, whatever the order of the options in the text.
C11_CollisionLabel ==
    (guideDone /\ guideRaw # <<>>) =>
        \A k \in 1 .. Len(guideOptions) :
            /\ CollisionGroup(guideOptions[k].value) # {}
            /\ \E i \in CollisionGroup(guideOptions[k].value) :
                   /\ \A j \in CollisionGroup(guideOptions[k].value) :
                          guideRaw[j].value <= guideRaw[i].value
                   /\ guideRaw[i].label = guideOptions[k].label

\* Raw 3 and 4 of a five-point guide both normalise to 3, the lower one
\* coming first in the text: the label of raw 4 is kept.
C11_Witness ==
    /\ guideDone
    /\ Len(guideRaw) = 3
    /\ guideRaw[1] = [value |-> 3, label |-> <<"a">>]
    /\ guideRaw[2].value = 4 /\ guideRaw[2].label # <<"a">>
    /\ guideRaw[3] = [value |-> 5, label |-> <<"a">>]
    /\ Len(guideOptions) = 2
    /\ guideOptions[2] = [value |-> 3, label |-> guideRaw[2].label]

PositiveValues(pairs) == \A i \in 1 .. Len(pairs) : pairs[i].value >= 1
DistinctValues(pairs) ==
    \A i, j \in 1 .. Len(pairs) : i # j => pairs[i].value # pairs[j].value

\* C12: for a single-line guide of k comma-joined entries '<int>=<label>'
\* with positive values and labels without '=', the parser recognises
\* exactly the k (value, label) pairs of the entries, in order, every label
\* whole.
C12_SingleLinePairs ==
    (/\ guideDone
     /\ guideForm.sep = "comma"
     /\ PositiveValues(guideForm.pairs)) => guideRaw = guideForm.pairs

LineOrders(n) ==
    {p \in [1 .. n -> 1 .. n] : \A i, j \in 1 .. n : i # j => p[i] # p[j]}

Permuted(pairs, p) == [i \in 1 .. Len(pairs) |-> pairs[p[i]]]

\* C13: for a guide of several lines '<int>=<label>' with distinct positive
\* values, parseScoringGuide returns the same options for every permutation
\* of the lines and for the single-line comma-joined form of the entries.
C13_LineOrderAndForm ==
    (/\ guideDone
     /\ guideForm.sep = "line"
     /\ Len(guideForm.pairs) >= 2
     /\ PositiveValues(guideForm.pairs)
     /\ DistinctValues(guideForm.pairs)) =>
        /\ \A p \in LineOrders(Len(guideForm.pairs)) :
               parseScoringGuide(
                   FormText([sep |-> "line",
                             pairs |-> Permuted(guideForm.pairs, p)]))
                   = guideOptions
        /\ parseScoringGuide(
               FormText([sep |-> "comma", pairs |-> guideForm.pairs]))
               = guideOptions

(***************************************************************************)
(* Claims about the identifiers and the options of loaded rows.            *)
(***************************************************************************)
\* The rows loaded up to and including row i of the pass that have the
\* category id and the subcategory text of row i.
SameKeyUpTo(i) ==
    {j \in LoadedRows :
        /\ j <= i
        /\ extractCategoryId(rowLog[j].row.CATEGORY)
               = extractCategoryId(rowLog[i].row.CATEGORY)
        /\ rowLog[j].row.SUBCATEGORY = rowLog[i].row.SUBCATEGORY}

SequenceNumber(i) == IntToText(Cardinality(SameKeyUpTo(i)))

HasSubPattern(sub) ==
    \E k \in 1 .. Len(sub) - 1 :
        \E e \in k .. Len(sub) - 1 :
            /\ \A m \in k .. e : IsDigit(sub[m])
            /\ IsLetter(sub[e + 1])

\* The first <digits><letter> of sub: the digits, then the letter in lower
\* case.
SubPattern(sub) ==
    LET k == SetMin({k \in 1 .. Len(sub) - 1 :
                        \E e \in k .. Len(sub) - 1 :
                            /\ \A m \in k .. e : IsDigit(sub[m])
                            /\ IsLetter(sub[e + 1])})
        e == SetMin({e \in k .. Len(sub) - 1 : ~IsDigit(sub[e + 1])})
    IN  SubSeq(sub, k, e) \o <<ToLowerChar(sub[e + 1])>>

\* C14: a loaded row whose subcategory text contains <digits><letter> has
\* the identifier <digits><letter>.<n>, n being the number of rows loaded so
\* far in the pass with the same category id and subcategory text.
C14_PatternId ==
    \A i \in LoadedRows :
        HasSubPattern(rowLog[i].row.SUBCATEGORY) =>
            rowLog[i].id = SubPattern(rowLog[i].row.SUBCATEGORY)
                               \o <<".">> \o SequenceNumber(i)

\* The subcategory text without its non-alphanumeric characters, cut to
\* its first 10 characters, 'q' when nothing is left.
Sanitized(sub) ==
    LET kept == SelectSeq(sub, IsAlnum)
    IN  IF kept = <<>> THEN <<"q">>
        ELSE IF Len(kept) > 10 THEN SubSeq(kept, 1, 10) ELSE kept

\* C15: a loaded row whose subcategory text contains no <digits><letter>
\* has the identifier <categoryId>.<sanitized>.<n>.
C15_FallbackId ==
    \A i \in LoadedRows :
        ~HasSubPattern(rowLog[i].row.SUBCATEGORY) =>
            rowLog[i].id =
                extractCategoryId(rowLog[i].row.CATEGORY) \o <<".">>
                    \o Sanitized(rowLog[i].row.SUBCATEGORY)
                    \o <<".">> \o SequenceNumber(i)

\* A 12-letter subcategory loaded twice, then an empty subcategory.
C15_Witness ==
    /\ Len(rowLog) = 3
    /\ rowLog[1].row.SUBCATEGORY = SubLong
    /\ rowLog[2].row.SUBCATEGORY = SubLong
    /\ rowLog[2].id = <<"1", ".", "a", "b", "c", "d", "e", "f", "g", "h",
                        "i", "j", ".", "2">>
    /\ rowLog[3].row.SUBCATEGORY = SubEmpty
    /\ rowLog[3].id = <<"1", ".", "q", ".", "1">>

\* C16: every pass of the loader over the same row sequence resolves the
\* same identifier -> definition map.
C16_StableAcrossPasses ==
    \A i, j \in 1 .. Len(loadResults) : loadResults[i] = loadResults[j]

\* Two passes over a file with two rows of the same key and a skipped row.
C16_Witness ==
    /\ Len(loadResults) = 2
    /\ Len(rowFile) = 3
    /\ skippedCount = 1
    /\ <<"1", "a", ".", "2">> \in DOMAIN loadResults[2]

\* C17: a row with non-blank category and question whose category text
\* starts with digits is not skipped for lack of a category id, and that
\* digit run is its category id.
C17_LeadingDigitsGiveId ==
    \A i \in 1 .. Len(rowLog) :
        (/\ Trim(rowLog[i].row.CATEGORY) # <<>>
         /\ Trim(rowLog[i].row.QUESTION) # <<>>
         /\ IsDigit(rowLog[i].row.CATEGORY[1])) =>
            /\ rowLog[i].reason # "No category ID"
            /\ extractCategoryId(rowLog[i].row.CATEGORY)
                   = LeadingDigits(rowLog[i].row.CATEGORY)

NothingParses(scoringGuide) ==
    \A k \in 1 .. Len(scoringGuide) : scoringGuide[k] # "="

DefaultScale ==
    <<[value |-> 4, label |-> <<"E", "x", "c", "e", "l", "l", "e", "n", "t">>],
      [value |-> 3, label |-> <<"G", "o", "o", "d">>],
      [value |-> 2, label |-> <<"F", "a", "i", "r">>],
      [value |-> 1, label |-> <<"P", "o", "o", "r">>]>>

\* The row the loop handled last, which no later row has overwritten.
LastRow == rowLog[Len(rowLog)]

\* C18: a row with category, question and category id whose scoring guide
\* yields no option is loaded, and the definition stored for it has the
\* default scale (4 Excellent, 3 Good, 2 Fair, 1 Poor) as its options.
C18_DefaultScale ==
    (/\ rowLog # <<>>
     /\ NothingParses(LastRow.row.GUIDE)
     /\ LastRow.reason \notin {"No CATEGORY", "No KEY EVALUATION QUESTIONS",
                               "No category ID"}) =>
        /\ LastRow.reason = ""
        /\ LastRow.id \in DOMAIN loadCriteria
        /\ loadCriteria[LastRow.id].options = DefaultScale

\* A row whose guide is 'n/a', loaded after a row with a parsed guide.
C18_Witness ==
    /\ Len(rowLog) = 2
    /\ rowLog[1].row.GUIDE = GuideLine /\ rowLog[1].reason = ""
    /\ LastRow.row.GUIDE = GuideNotApplicable
    /\ LastRow.reason = ""
    /\ loadCriteria[LastRow.id].options = DefaultScale

(***************************************************************************)
(* Claims about normalizeWeights.                                          *)
(***************************************************************************)
FloatOne == FloatOf(1, 1, 0)
NwTotal(w) == FloatSum(w, IntegerKeysOf(DOMAIN w))

\* The least exponent of the weights of w, and their exact sum in units of
\* 2^LeastExp(w).
LeastExp(w) == SetMin({w[k].e : k \in DOMAIN w})

RECURSIVE SumUnits(_, _, _)
SumUnits(w, S, lo) ==
    IF S = {} THEN 0
    ELSE LET k == CHOOSE k \in S : TRUE
         IN  w[k].m * Pow2(w[k].e - lo) + SumUnits(w, S \ {k}, lo)

ExactSumUnits(w) == SumUnits(w, DOMAIN w, LeastExp(w))

\* The weights of w sum to exactly 1, as real numbers or as the program
\* would add them.
SumsToOne(w) ==
    \/ ExactSumUnits(w) = Pow2(0 - LeastExp(w))
    \/ NwTotal(w) = FloatOne

\* The weights of w sum to 1 within 2^(3-FloatBits), four units in the last
\* place of 1.
SumsToOneWithin(w) ==
    Abs(ExactSumUnits(w) - Pow2(0 - LeastExp(w))) * Pow2(FloatBits - 3)
        <= Pow2(0 - LeastExp(w))

DividedByTotal(in, out) ==
    /\ DOMAIN out = DOMAIN in
    /\ \A k \in DOMAIN in : out[k] = FloatDiv(in[k], NwTotal(in))

\* C19 as stated: normalizeWeights returns, over the same keys, every
\* weight divided by the sum of the weights, and these sum to 1; when the
\* sum is exactly 0 it returns its argument unchanged.
C19_SumsToOne ==
    nwCalls >= 1 =>
        IF NwTotal(nwIn) = FloatZero THEN nwOut = nwIn
        ELSE DividedByTotal(nwIn, nwOut) /\ SumsToOne(nwOut)

\* C19 amended: as C19, the output weights summing to 1 within
\* floating-point tolerance instead of exactly.
C19_SumsToOneWithinTolerance ==
    nwCalls >= 1 =>
        IF NwTotal(nwIn) = FloatZero THEN nwOut = nwIn
        ELSE DividedByTotal(nwIn, nwOut) /\ SumsToOneWithin(nwOut)

\* A first call whose quotients are rounded and no longer sum to exactly 1.
C19_Witness ==
    /\ nwCalls = 1
    /\ NwTotal(nwIn) # FloatZero
    /\ ~SumsToOne(nwOut)
    /\ SumsToOneWithin(nwOut)

\* |a - b| <= 2^(3-FloatBits)
FloatNear(a, b) ==
    LET lo == Min2(a.e, b.e)
    IN  Abs(a.m * Pow2(a.e - lo) - b.m * Pow2(b.e - lo)) * Pow2(FloatBits - 3)
            <= Pow2(0 - lo)

\* C20 as stated: normalizing an already normalized map whose sum is not 0
\* returns an equal map.
C20_Idempotent ==
    (nwCalls >= 2 /\ NwTotal(nwIn) # FloatZero) => nwOut = nwIn

\* C20 amended: normalizing an already normalized map whose sum is not 0
\* returns a map over the same keys whose weights equal the argument's
\* within floating-point tolerance.
C20_IdempotentWithinTolerance ==
    (nwCalls >= 2 /\ NwTotal(nwIn) # FloatZero) =>
        /\ DOMAIN nwOut = DOMAIN nwIn
        /\ \A k \in DOMAIN nwIn : FloatNear(nwOut[k], nwIn[k])

\* A second call on a map whose rounded weights add up to a little less or
\* more than 1: the weights change in the last place.
C20_Witness ==
    /\ nwCalls = 2
    /\ NwTotal(nwIn) # FloatZero
    /\ NwTotal(nwIn) # FloatOne
    /\ nwOut # nwIn
    /\ \A k \in DOMAIN nwIn : FloatNear(nwOut[k], nwIn[k])

(***************************************************************************)
(* The Settings view's category weights (PowerhouseSupplierSystem.tsx:     *)
(* 126-147, 339-345, 408-413; Settings.tsx:53-61; storage.ts:43-49).       *)
(***************************************************************************)
NaN == [nan |-> TRUE]

RECURSIVE Pow10(_)
Pow10(k) == IF k = 0 THEN 1 ELSE 10 * Pow10(k - 1)

\* parseFloat of a text of digits and '.': the longest prefix
\* <digits>[.<digits>] with at least one digit, NaN when there is none.
parseFloat(text) ==
    LET i == DigitRunLen(text, 1)
        hasPoint == i < Len(text) /\ text[i + 1] = "."
        f == IF hasPoint THEN DigitRunLen(text, i + 2) ELSE 0
    IN  IF i + f = 0 THEN NaN
        ELSE FloatOf(ParseInt(SubSeq(text, 1, i)) * Pow10(f)
                         + ParseInt(SubSeq(text, i + 2, i + 1 + f)),
                     Pow10(f), 0)

\* parseFloat(text) || 0
ParseFloatOrZero(text) ==
    IF parseFloat(text) = NaN THEN FloatZero ELSE parseFloat(text)

\* Rows of weights.csv.
CatThree == <<"3", ".", " ", "C">>
WeightRow(category, weight) == [category |-> category, weight |-> weight]
WeightRows ==
    <<WeightRow(CatOne, <<"0", ".", "5">>),
      WeightRow(CatTwo, <<"0", ".", "3">>),
      WeightRow(NoText, <<"0", ".", "9">>),
      WeightRow(CatThree, <<"0", ".", "2">>)>>

\* The map loadWeights resolves with (Settings.tsx:495-505).
RECURSIVE loadWeights(_)
loadWeights(rows) ==
    IF rows = <<>> THEN <<>>
    ELSE LET row == rows[Len(rows)]
             before == loadWeights(SubSeq(rows, 1, Len(rows) - 1))
         IN  IF row.category = <<>> \/ extractCategoryId(row.category) = <<>>
             THEN before
             ELSE Put(before, extractCategoryId(row.category),
                      ParseFloatOrZero(row.weight))

\* What the user types into a weight input.
EditTexts ==
    {<<>>, <<"0">>, <<"1">>, <<"0", ".", "5">>, <<"0", ".", "3">>,
     <<".", "7">>}

(***************************************************************************)
(* Specification SpecSettings: the application after its mount effect,     *)
(* with no weights in localStorage, then up to MaxEdits weight edits, up   *)
(* to MaxSaves clicks on Save Weights, and resets.  storedWeights is the   *)
(* weights item of localStorage, read back as JSON.parse reads it: the     *)
(* text JSON.stringify writes for a finite number parses to the same       *)
(* number.                                                                 *)
(***************************************************************************)
InitSettings ==
    /\ NormIdle /\ ScoreIdle /\ GuideIdle /\ LoadIdle /\ NwIdle
    /\ AssessIdle /\ MigrateIdle /\ ScaleIdle /\ ReviewIdle
    /\ categoryWeights = loadWeights(WeightRows)
    /\ tempWeights = loadWeights(WeightRows)
    /\ storedWeights = NoStored
    /\ settingsOp = "mount"
    /\ saveCount = 0 /\ editCount = 0

\* onChange of a weight input (Settings.tsx:58-61).
EditWeight ==
    /\ editCount < MaxEdits
    /\ editCount' = editCount + 1
    /\ \E c \in DOMAIN tempWeights, text \in EditTexts :
        tempWeights' = Put(tempWeights, c, ParseFloatOrZero(text))
    /\ settingsOp' = "edit"
    /\ UNCHANGED <<categoryWeights, storedWeights, saveCount,
                   otherThanSettings>>

\* handleSaveWeights (PowerhouseSupplierSystem.tsx:339-345); setItem of
\* saveCategoryWeights may throw, which is caught (storage.ts:44-48).
handleSaveWeights ==
    /\ saveCount < MaxSaves
    /\ \E normalized \in {normalizeWeights(tempWeights)} :
        /\ categoryWeights' = normalized
        /\ tempWeights' = normalized
        /\ \E stored \in BOOLEAN :
            storedWeights' = IF stored
                             THEN [saved |-> TRUE, weights |-> normalized]
                             ELSE storedWeights
    /\ settingsOp' = "save"
    /\ saveCount' = saveCount + 1
    /\ UNCHANGED <<editCount, otherThanSettings>>

\* handleResetWeights, when loadWeights has resolved (lines 408-413).
handleResetWeights ==
    /\ \E w \in {loadWeights(WeightRows)} :
        /\ tempWeights' = w
        /\ categoryWeights' = w
    /\ settingsOp' = "reset"
    /\ UNCHANGED <<storedWeights, saveCount, editCount, otherThanSettings>>

NextSettings == EditWeight \/ handleSaveWeights \/ handleResetWeights

SpecSettings == InitSettings /\ [][NextSettings]_vars

(***************************************************************************)
(* Claims about saving the weights.                                        *)
(***************************************************************************)
\* C21: after any sequence of weight edits followed by Save Weights, the
\* active category weights, the edit buffer and the persisted weights are
\* the same map, and that map sums to 1.0 (here: to within the rounding of
\* the divisions, see C19).
C21_SavedWeightsSumToOne ==
    settingsOp = "save"
        => /\ categoryWeights = tempWeights
           /\ storedWeights = [saved |-> TRUE, weights |-> categoryWeights]
           /\ SumsToOneWithin(categoryWeights)

\* The part of C21 that does hold: the active weights and the edit buffer
\* are the same map after a save.
C21_ActiveIsBuffer == settingsOp = "save" => categoryWeights = tempWeights

\* Every weight edited to 0 and saved: the saved map is all zeros.
C21_ZeroSaved ==
    /\ settingsOp = "save"
    /\ storedWeights = [saved |-> TRUE, weights |-> categoryWeights]
    /\ \A c \in DOMAIN categoryWeights : categoryWeights[c] = FloatZero

(***************************************************************************)
(* Claims about calculateAllScores.                                        *)
(***************************************************************************)
AllNull(sc) == \A id \in DOMAIN sc : sc[id] = Null

\* C22: calculateAllScores returns categoryScores and weightedCategoryScores
\* keyed by exactly the keys of the weight map, categoryScores[c] being
\* getCategoryScore(scores, c, criteria) (0 when nothing is answered) and
\* weightedCategoryScores[c] being categoryScores[c] * weights[c], and
\* totalScore and weightedScore being calculateTotalScore and
\* calculateWeightedScore of the same inputs.
C22_AllScores ==
    scoreOp.name = "all"
        => /\ DOMAIN scoreRes.categoryScores = DOMAIN weights
           /\ DOMAIN scoreRes.weightedCategoryScores = DOMAIN weights
           /\ \A c \in DOMAIN weights :
               /\ scoreRes.categoryScores[c]
                      = getCategoryScore(scores, c, criteria)
               /\ AllNull(scores) => scoreRes.categoryScores[c] = RZero
               /\ scoreRes.weightedCategoryScores[c]
                      = RMul(scoreRes.categoryScores[c], Rat(weights[c], 100))
           /\ scoreRes.totalScore = calculateTotalScore(scores, criteria)
           /\ scoreRes.weightedScore
                  = calculateWeightedScore(scores, weights, criteria)

\* calculateAllScores on scores that answer one category and not the other.
C22_Witness ==
    /\ scoreOp.name = "all"
    /\ \E c, d \in DOMAIN weights :
        /\ scoreRes.categoryScores[c] # RZero
        /\ scoreRes.weightedCategoryScores[c] # RZero
        /\ scoreRes.categoryScores[d] = RZero

(***************************************************************************)
(* POST /api/assess (server/index.js:38-163).  A criterion of the request  *)
(* is its identifier; the reply of the model call for it is one of         *)
(* Replies: the call throws, the reply text is not JSON, it is the JSON    *)
(* text null, or it is an object with or without a score and a confidence  *)
(* and no reasoning or sources.                                            *)
(***************************************************************************)
\* A score the reply does not have (undefined): neither null nor a number.
Missing == <<0, 0>>
ReplyScores == {Null, Num(1), Num(4), Missing}
ReplyConfidences == {"high", "low", ""}
Replies ==
    {[kind |-> k, score |-> Missing, confidence |-> "", tokens |-> 0] :
        k \in {"throws", "not json", "null"}}
    \cup {[kind |-> "object", score |-> sc, confidence |-> cf, tokens |-> t] :
             sc \in ReplyScores, cf \in ReplyConfidences, t \in 0 .. 1}

\* As ErrorEntry, without the review flag.
ErrorEntryNotFlagged(criterionId) ==
    [criterionId |-> criterionId, score |-> Null, confidence |-> "low",
     reasoning |-> "Error assessing this criterion", sources |-> <<>>,
     needsReview |-> FALSE]

\* The results entry of the catch block (lines 138-145).
ErrorEntry(criterionId) ==
    [criterionId |-> criterionId, score |-> Null, confidence |-> "low",
     reasoning |-> "Error assessing this criterion", sources |-> <<>>,
     needsReview |-> TRUE]

\* The results entry built from a parsed reply (lines 125-132).
AssessedEntry(criterionId, reply) ==
    [criterionId |-> criterionId,
     score |-> reply.score,
     confidence |-> IF reply.confidence = "" THEN "medium"
                    ELSE reply.confidence,
     reasoning |-> "No reasoning provided",
     sources |-> <<>>,
     needsReview |-> reply.score = Null \/ reply.confidence = "low"]

AssessIds == {Id1a1, Id1a2, Id2b1}
RECURSIVE CriteriaLists(_)
CriteriaLists(n) ==
    IF n = 0 THEN {<<>>}
    ELSE CriteriaLists(n - 1)
         \cup {Append(l, id) :
                  l \in {x \in CriteriaLists(n - 1) : Len(x) = n - 1},
                  id \in AssessIds}
NoDuplicates(l) == \A i, j \in 1 .. Len(l) : l[i] = l[j] => i = j
\* req.body: criteria is absent, or an object listed in its key order.
Requests ==
    {[supplierName |-> n, hasKey |-> k, hasCriteria |-> TRUE, criteria |-> l] :
        n \in {<<>>, <<"A">>}, k \in BOOLEAN,
        l \in {x \in CriteriaLists(MaxCriteria) : NoDuplicates(x)}}
    \cup {[supplierName |-> n, hasKey |-> k, hasCriteria |-> FALSE,
            criteria |-> <<>>] : n \in {<<>>, <<"A">>}, k \in BOOLEAN}

(***************************************************************************)
(* Specification SpecAssess: one request to POST /api/assess.  assessPos   *)
(* counts the criteria the loop has handled, replies records what the      *)
(* model call gave for each of them.                                       *)
(***************************************************************************)
InitAssess ==
    /\ NormIdle /\ ScoreIdle /\ GuideIdle /\ LoadIdle /\ NwIdle
    /\ SettingsIdle /\ MigrateIdle /\ ScaleIdle /\ ReviewIdle
    /\ assessReq \in Requests
    /\ assessPos = 0
    /\ results = <<>> /\ totalTokens = 0 /\ replies = <<>>
    /\ response = NoResponse

\* The checks before the loop, and the outer catch when Object.entries
\* throws on absent criteria (lines 40-49, 156-162).
RejectRequest ==
    /\ response = NoResponse
    /\ \/ /\ assessReq.supplierName = <<>>
          /\ response' = [status |-> 400]
       \/ /\ assessReq.supplierName # <<>>
          /\ ~assessReq.hasKey \/ ~assessReq.hasCriteria
          /\ response' = [status |-> 500]
    /\ UNCHANGED <<assessReq, assessPos, results, totalTokens, replies,
                   otherThanAssess>>

\* One turn of the loop over Object.entries(criteria) (lines 66-147).
AssessCriterion ==
    /\ response = NoResponse
    /\ assessReq.supplierName # <<>> /\ assessReq.hasKey
    /\ assessReq.hasCriteria
    /\ assessPos < Len(assessReq.criteria)
    /\ \E reply \in Replies,
          criterionId \in {assessReq.criteria[assessPos + 1]} :
        /\ replies' = Append(replies, reply)
        /\ totalTokens' = totalTokens + reply.tokens
        /\ results' = Put(results, criterionId,
                          IF reply.kind = "object"
                          THEN AssessedEntry(criterionId, reply)
                          ELSE ErrorEntry(criterionId))
    /\ assessPos' = assessPos + 1
    /\ UNCHANGED <<assessReq, response, otherThanAssess>>

\* res.json after the loop (lines 150-155).
SendResults ==
    /\ response = NoResponse
    /\ assessReq.supplierName # <<>> /\ assessReq.hasKey
    /\ assessReq.hasCriteria
    /\ assessPos = Len(assessReq.criteria)
    /\ response' = [status |-> 200, results |-> results,
                    totalCalls |-> Len(assessReq.criteria),
                    totalTokens |-> totalTokens]
    /\ UNCHANGED <<assessReq, assessPos, results, totalTokens, replies,
                   otherThanAssess>>

NextAssess == RejectRequest \/ AssessCriterion \/ SendResults

SpecAssess == InitAssess /\ [][NextAssess]_vars

(***************************************************************************)
(* Claims about POST /api/assess.                                          *)
(***************************************************************************)
RequestIds == {assessReq.criteria[i] : i \in 1 .. Len(assessReq.criteria)}

\* One entry per criterion of the request; the entry of a criterion whose
\* call or reply failed is the null, low-confidence, flagged one, and the
\* others carry the score of their reply.
EntriesAsClaimed ==
    /\ response.status = 200
    /\ DOMAIN response.results = RequestIds
    /\ \A i \in 1 .. Len(assessReq.criteria) :
        LET entry == response.results[assessReq.criteria[i]]
        IN  /\ entry.criterionId = assessReq.criteria[i]
            /\ IF replies[i].kind # "object"
               THEN /\ entry.score = Null
                    /\ entry.confidence = "low"
                    /\ entry.needsReview
               ELSE entry.score = replies[i].score

SkippedRows == {i \in 1 .. Len(rowLog) : rowLog[i].reason # ""}
SkippedFor(reason) == {i \in SkippedRows : rowLog[i].reason = reason}
LoadedWithKey(key) ==
    {i \in 1 .. Len(rowLog) :
        rowLog[i].reason = "" /\ RowSubCategoryKey(rowLog[i].row) = key}
LoadedInCategory(categoryId) ==
    {i \in 1 .. Len(rowLog) :
        rowLog[i].reason = "" /\ RowCategoryId(rowLog[i].row) = categoryId}
RECURSIVE SumOfCounts(_)
SumOfCounts(counts) ==
    IF DOMAIN counts = {} THEN 0
    ELSE LET k == CHOOSE k \in DOMAIN counts : TRUE
         IN  counts[k]
                 + SumOfCounts([j \in DOMAIN counts \ {k} |-> counts[j]])

\* C24: in a load pass every row of the file is handled once, in order: it
\* is skipped and counted under exactly one reason (the per-reason counts
\* sum to skippedCount) or it is given an identifier; rows after a skipped
\* row are still handled, and a skipped row advances no sequence counter.
C24_RowsAccountedFor ==
    /\ Len(rowLog) <= Len(rowFile)
    /\ loadDone => Len(rowLog) = Len(rowFile)
    /\ \A i \in 1 .. Len(rowLog) :
        /\ rowLog[i].row = rowFile[i]
        /\ rowLog[i].reason # "" <=> rowLog[i].id = <<>>
        /\ rowLog[i].reason = "" => rowLog[i].id \in DOMAIN loadCriteria
    /\ skippedCount = Cardinality(SkippedRows)
    /\ SumOfCounts(skippedReasons) = skippedCount
    /\ DOMAIN skippedReasons = {rowLog[i].reason : i \in SkippedRows}
    /\ \A reason \in DOMAIN skippedReasons :
        skippedReasons[reason] = Cardinality(SkippedFor(reason))
    /\ \A key \in DOMAIN subCategoryCounts :
        subCategoryCounts[key] = Cardinality(LoadedWithKey(key))
    /\ \A categoryId \in DOMAIN categoryCounts :
        categoryCounts[categoryId] = Cardinality(LoadedInCategory(categoryId))

\* A finished pass that skipped two rows for one reason and loaded the row
\* after them with sequence number 1.
C24_Witness ==
    /\ loadDone
    /\ Len(rowLog) = 3
    /\ rowLog[1].reason # "" /\ rowLog[2].reason = rowLog[1].reason
    /\ rowLog[3].reason = ""
    /\ subCategoryCounts[RowSubCategoryKey(rowLog[3].row)] = 1
    /\ skippedCount = 2

(***************************************************************************)
(* The migration helpers of scoreNormalizer.ts.  A score is Null, Missing  *)
(* (undefined), Num(v) or ScoreNaN.  The factors 3 / (oldMax - 1) of the   *)
(* scales explored here give no product within a rounding error of a half, *)
(* so exact fractions round as the source's doubles do.                    *)
(***************************************************************************)
\* NaN as a score: neither null nor a number.
ScoreNaN == <<0, 0, 0>>

\* Math.max(1, Math.min(4, Math.round(1 + (v - 1) * (3 / (oldMax - 1))))),
\* for oldMax # 1.
Interpolated(v, oldMax) ==
    IF oldMax > 1
    THEN Clamp14(MathRound((oldMax - 1) + (v - 1) * 3, oldMax - 1))
    ELSE Clamp14(MathRound((1 - oldMax) - (v - 1) * 3, 1 - oldMax))

\* normalizeScore (scoreNormalizer.ts:12-39).  With oldMax = 1 the factor
\* is 3 / 0 = Infinity: 0 * Infinity is NaN, which Math.round, Math.min and
\* Math.max hand on.
migrationNormalizeScore(oldValue, oldMax) ==
    IF oldValue = Null \/ oldValue = Missing THEN Null
    ELSE IF oldValue = ScoreNaN THEN ScoreNaN
    ELSE IF oldMax = 4 THEN Num(Clamp14(oldValue[1]))
    ELSE IF oldMax = 1
    THEN IF oldValue[1] = 1 THEN ScoreNaN
         ELSE IF oldValue[1] > 1 THEN Num(4) ELSE Num(1)
    ELSE Num(Interpolated(oldValue[1], oldMax))

\* oldMax as normalizeSupplierScores detects it (lines 61-70); a maxScore
\* of 0 stands for a definition without one.
DetectedMax(criterionId, score, criteriaDefinitions) ==
    IF /\ criterionId \in DOMAIN criteriaDefinitions
       /\ criteriaDefinitions[criterionId].maxScore # 0
    THEN criteriaDefinitions[criterionId].maxScore
    ELSE IF score # ScoreNaN /\ score[1] > 4 THEN 5 ELSE 4

\* normalizeSupplierScores (scoreNormalizer.ts:48-76).
normalizeSupplierScores(scoreMap, criteriaDefinitions) ==
    [criterionId \in DOMAIN scoreMap |->
        IF scoreMap[criterionId] = Null \/ scoreMap[criterionId] = Missing
        THEN Null
        ELSE migrationNormalizeScore(
                 scoreMap[criterionId],
                 DetectedMax(criterionId, scoreMap[criterionId],
                             criteriaDefinitions))]

(***************************************************************************)
(* Specification SpecMigrateScore: one call of normalizeScore of           *)
(* scoreNormalizer.ts on null, undefined or an integer from -MaxBelow to   *)
(* MaxMigValue and a scale maximum from 1 to MaxMigMax.                    *)
(***************************************************************************)
MigValues ==
    {Null, Missing} \cup {Num(v) : v \in (0 - MaxBelow) .. MaxMigValue}

InitMigrateScore ==
    /\ NormIdle /\ ScoreIdle /\ GuideIdle /\ LoadIdle /\ NwIdle
    /\ SettingsIdle /\ AssessIdle /\ MigrateIdle /\ ScaleIdle /\ ReviewIdle

CallMigrationNormalizeScore ==
    /\ ~migCall.made
    /\ \E oldValue \in MigValues, oldMax \in 1 .. MaxMigMax :
        migCall' = [v |-> oldValue, m |-> oldMax,
                    r |-> migrationNormalizeScore(oldValue, oldMax),
                    made |-> TRUE]
    /\ UNCHANGED <<migScores, migDefs, migIn, migOut, migCalls,
                   otherThanMigrate>>

NextMigrateScore == CallMigrationNormalizeScore

SpecMigrateScore == InitMigrateScore /\ [][NextMigrateScore]_vars

(***************************************************************************)
(* Specification SpecMigrate: up to MaxMigrations calls of                 *)
(* normalizeSupplierScores with the same definitions, the first on a map   *)
(* of null or integer scores from 0 to MaxMigScore, each later one on the  *)
(* result of the call before.                                              *)
(***************************************************************************)
MigIds == {Id1a1, Id2b1}
MigScoreChoices == {Null} \cup {Num(v) : v \in 0 .. MaxMigScore}
MigScoreMaps ==
    [MigIds -> MigScoreChoices] \cup [{Id1a1} -> MigScoreChoices] \cup {<<>>}
MigMaxScores == {0, 1, 3, 4, 5}
MigDefinitions ==
    UNION {[ids -> [maxScore : MigMaxScores]] : ids \in SUBSET MigIds}

InitMigrate ==
    /\ NormIdle /\ ScoreIdle /\ GuideIdle /\ LoadIdle /\ NwIdle
    /\ SettingsIdle /\ AssessIdle /\ ScaleIdle /\ ReviewIdle
    /\ migCall = NoMigCall
    /\ migScores \in MigScoreMaps
    /\ migDefs \in MigDefinitions
    /\ migIn = <<>> /\ migOut = <<>> /\ migCalls = 0

CallNormalizeSupplierScores ==
    /\ migCalls < MaxMigrations
    /\ \E scoreMap \in {IF migCalls = 0 THEN migScores ELSE migOut} :
        /\ migIn' = scoreMap
        /\ migOut' = normalizeSupplierScores(scoreMap, migDefs)
    /\ migCalls' = migCalls + 1
    /\ UNCHANGED <<migCall, migScores, migDefs, otherThanMigrate>>

NextMigrate == CallNormalizeSupplierScores

SpecMigrate == InitMigrate /\ [][NextMigrate]_vars

(***************************************************************************)
(* Claims about the migration helpers.                                     *)
(***************************************************************************)
IsScore14(r) == \E k \in 1 .. 4 : r = Num(k)

\* C25: normalizeScore of scoreNormalizer.ts returns null for a null or
\* undefined value and otherwise a value in [1,4], for every integer
\* oldValue and every integer oldMax >= 1.
C25_NullOrInRange ==
    migCall.made
        => IF migCall.v = Null \/ migCall.v = Missing
           THEN migCall.r = Null
           ELSE IsScore14(migCall.r)

\* The call normalizeScore(1, 1), whose result is NaN.
C25_NaNResult ==
    migCall.made /\ migCall.v = Num(1) /\ migCall.m = 1
        /\ migCall.r = ScoreNaN

\* C29: normalizeSupplierScores applied twice with the same definitions
\* gives the same map as applied once; it keeps the key set and maps null
\* to null.
C29_MigrationIdempotent ==
    /\ migCalls >= 1
        => /\ DOMAIN migOut = DOMAIN migIn
           /\ \A id \in DOMAIN migIn : migIn[id] = Null => migOut[id] = Null
    /\ migCalls = 2 => migOut = migIn

\* The part of C29 that holds: the key set is kept and null stays null.
C29_KeysAndNulls ==
    migCalls >= 1
        => /\ DOMAIN migOut = DOMAIN migIn
           /\ \A id \in DOMAIN migIn : migIn[id] = Null => migOut[id] = Null

\* A second migration that changes a score the first one produced.
C29_ChangedAgain == migCalls = 2 /\ migOut # migIn

(***************************************************************************)
(* Claims about the category an entry is counted for.                      *)
(***************************************************************************)
\* C26: every non-null score entry is counted by getCategoryScore for at
\* most one categoryId.
C26_OneCategoryPerEntry ==
    scoreOp.name = "category"
        => \A key \in DOMAIN scores :
               CountsEntry(scores, key, scoreOp.cat, criteria)
                   => \A c \in CategoryIds \ {scoreOp.cat} :
                          ~CountsEntry(scores, key, c, criteria)

\* An entry counted for the category of its identifier's digits and for the
\* category of its definition's digits.
C26_CountedTwice ==
    /\ scoreOp.name = "category"
    /\ \E key \in DOMAIN scores :
        /\ CountsEntry(scores, key, Cat1, criteria)
        /\ CountsEntry(scores, key, Cat2, criteria)
        /\ getCategoryScore(scores, Cat1, criteria) # RZero
        /\ getCategoryScore(scores, Cat2, criteria) # RZero

(***************************************************************************)
(* Claims about the digits an identifier starts with.                      *)
(***************************************************************************)
\* The score map that answers the one question id.
OneAnswer(id) == [key \in {id} |-> Num(4)]

\* C27: every identifier the loader produces begins with a digit run that
\* is exactly the category id of its row, followed by a character that is
\* not a digit, so the prefix match of getCategoryScore counts the question
\* for its row's category.
C27_IdStartsWithCategoryId ==
    \A i \in 1 .. Len(rowLog) :
        rowLog[i].reason = ""
            => /\ RowCategoryId(rowLog[i].row) # <<>>
               /\ LeadingDigits(rowLog[i].id) = RowCategoryId(rowLog[i].row)
               /\ Len(rowLog[i].id) > Len(RowCategoryId(rowLog[i].row))
               /\ ~IsDigit(rowLog[i].id[Len(RowCategoryId(rowLog[i].row)) + 1])
               /\ CountsEntry(OneAnswer(rowLog[i].id), rowLog[i].id,
                              RowCategoryId(rowLog[i].row), <<>>)

\* A loaded row of category 12 whose sub-category is a digit.
C27_Witness ==
    /\ rowLog # <<>>
    /\ LastRow.reason = ""
    /\ LastRow.row.CATEGORY = CatTwelve
    /\ LastRow.row.SUBCATEGORY = SubDigits
    /\ LastRow.id = <<"1", "2", ".", "7", ".", "1">>

(***************************************************************************)
(* calculateWeightedScore (scoring.ts:73-90) in the floating-point         *)
(* arithmetic of normalizeWeights, on a weight map of floating-point       *)
(* numbers.  The category average total / length is one rounded division   *)
(* of two whole numbers.                                                   *)
(***************************************************************************)
\* a * b
FloatMul(a, b) == FloatOf(a.m * b.m, 1, a.e + b.e)

\* getCategoryScore as a floating-point number.
FloatCategoryScore(sc, categoryId, crit) ==
    FloatOf(getCategoryScore(sc, categoryId, crit).n,
            getCategoryScore(sc, categoryId, crit).d, 0)

\* As FloatWeightedAcc, but every answered category counts 1 in the divisor.
RECURSIVE FloatWeightedAccUnitWeight(_, _, _, _)
FloatWeightedAccUnitWeight(sc, w, crit, cats) ==
    IF cats = <<>> THEN [weightedSum |-> FloatZero, totalWeight |-> FloatZero]
    ELSE LET n == Len(cats)
             acc == FloatWeightedAccUnitWeight(sc, w, crit,
                                               SubSeq(cats, 1, n - 1))
             categoryScore == FloatCategoryScore(sc, cats[n], crit)
         IN  IF categoryScore.m > 0
             THEN [weightedSum |->
                       FloatAdd(acc.weightedSum,
                                FloatMul(categoryScore, w[cats[n]])),
                   totalWeight |-> FloatAdd(acc.totalWeight, FloatOf(1, 1, 0))]
             ELSE acc

\* weightedSum and totalWeight after the categories cats (lines 81-87).
RECURSIVE FloatWeightedAcc(_, _, _, _)
FloatWeightedAcc(sc, w, crit, cats) ==
    IF cats = <<>> THEN [weightedSum |-> FloatZero, totalWeight |-> FloatZero]
    ELSE LET n == Len(cats)
             acc == FloatWeightedAcc(sc, w, crit, SubSeq(cats, 1, n - 1))
             categoryScore == FloatCategoryScore(sc, cats[n], crit)
         IN  IF categoryScore.m > 0
             THEN [weightedSum |->
                       FloatAdd(acc.weightedSum,
                                FloatMul(categoryScore, w[cats[n]])),
                   totalWeight |-> FloatAdd(acc.totalWeight, w[cats[n]])]
             ELSE acc

\* totalWeight > 0 ? weightedSum / totalWeight : 0
FloatWeightedResult(acc) ==
    IF acc.totalWeight.m > 0 THEN FloatDiv(acc.weightedSum, acc.totalWeight)
    ELSE FloatZero

calculateWeightedScoreFloatUnitWeight(sc, w, crit) ==
    FloatWeightedResult(
        FloatWeightedAccUnitWeight(sc, w, crit, IntegerKeysOf(DOMAIN w)))

calculateWeightedScoreFloat(sc, w, crit) ==
    FloatWeightedResult(
        FloatWeightedAcc(sc, w, crit, IntegerKeysOf(DOMAIN w)))

(***************************************************************************)
(* Specification SpecScale: calculateWeightedScore on a score map, once    *)
(* with a weight map of three categories (whole weights up to              *)
(* MaxScaleWeight, or 0.1 or 0.3) and once with normalizeWeights of that   *)
(* map.  No question belongs to category 3.                                *)
(***************************************************************************)
ScaleIds == {Id1a1, Id1a2, Id2b1}
ScaleScoreMaps == [ScaleIds -> {Null} \cup {Num(v) : v \in 1 .. 4}]
ScaleWeightValues ==
    {FloatOf(k, 1, 0) : k \in 0 .. MaxScaleWeight}
        \cup {FloatOf(k, 10, 0) : k \in {1, 3}}
ScaleWeightMaps == [{Cat1, Cat2, Cat3} -> ScaleWeightValues]

InitScale ==
    /\ NormIdle /\ ScoreIdle /\ GuideIdle /\ LoadIdle /\ NwIdle
    /\ SettingsIdle /\ AssessIdle /\ MigrateIdle /\ ReviewIdle
    /\ scaleScores \in ScaleScoreMaps
    /\ scaleWeights \in ScaleWeightMaps
    /\ scaleRaw = FloatZero /\ scaleNormalized = FloatZero
    /\ scaleDone = FALSE

CompareWeightedScores ==
    /\ ~scaleDone
    /\ scaleRaw' = calculateWeightedScoreFloat(scaleScores, scaleWeights, <<>>)
    /\ scaleNormalized' =
           calculateWeightedScoreFloat(scaleScores,
                                       normalizeWeights(scaleWeights), <<>>)
    /\ scaleDone' = TRUE
    /\ UNCHANGED <<scaleScores, scaleWeights, otherThanScale>>

NextScale == CompareWeightedScores

SpecScale == InitScale /\ [][NextScale]_vars

(***************************************************************************)
(* Claims about scaling the weights.                                       *)
(***************************************************************************)
\* |a - b| <= 2^(5-FloatBits), eight units in the last place of a score
\* between 2 and 4.
ScoreNear(a, b) ==
    LET lo == Min2(a.e, b.e)
    IN  Abs(a.m * Pow2(a.e - lo) - b.m * Pow2(b.e - lo)) * Pow2(FloatBits - 5)
            <= Pow2(0 - lo)

\* C28 as stated: with non-negative weights of non-zero sum,
\* calculateWeightedScore gives the same result with the raw weights as with
\* normalizeWeights(weights).
C28_ScaleInvariant ==
    (scaleDone /\ NwTotal(scaleWeights) # FloatZero)
        => scaleNormalized = scaleRaw

\* C28 amended: with non-negative weights of non-zero sum,
\* calculateWeightedScore gives the same result, within floating-point
\* tolerance, with the raw weights as with normalizeWeights(weights).
C28_ScaleInvariantWithinTolerance ==
    (scaleDone /\ NwTotal(scaleWeights) # FloatZero)
        => ScoreNear(scaleNormalized, scaleRaw)

\* Two answered categories with different scores and weights that do not
\* sum to 1, where the two results differ in the last places.
C28_Witness ==
    /\ scaleDone
    /\ NwTotal(scaleWeights) # FloatZero
    /\ NwTotal(scaleWeights) # FloatOne
    /\ scaleWeights[Cat1].m > 0 /\ scaleWeights[Cat2].m > 0
    /\ getCategoryScore(scaleScores, Cat1, <<>>)
           # getCategoryScore(scaleScores, Cat2, <<>>)
    /\ RPos(getCategoryScore(scaleScores, Cat1, <<>>))
    /\ RPos(getCategoryScore(scaleScores, Cat2, <<>>))
    /\ scaleNormalized # scaleRaw
    /\ ScoreNear(scaleNormalized, scaleRaw)

(***************************************************************************)
(* The needs-review flags of the AI assessment results view (part_002:     *)
(* 65-95, 481-489).  aiNeedsReview is the needsReview flag of each result, *)
(* manualReviewFlags the component state, a map without a key for a        *)
(* criterion that was never toggled.                                       *)
(***************************************************************************)
\* getNeedsReview(criterionId, aiNeedsReview) under the manual flags flags.
getNeedsReview(flags, criterionId, aiFlag) ==
    IF criterionId \in DOMAIN flags THEN flags[criterionId] ELSE aiFlag

\* The manual flags after toggleNeedsReview(criterionId): !prev[criterionId],
\* where !undefined is true.
Toggled(prev, criterionId) ==
    Put(prev, criterionId,
        IF criterionId \in DOMAIN prev THEN ~prev[criterionId] ELSE TRUE)

(***************************************************************************)
(* Specification SpecReview: results for two criteria with any AI flags,   *)
(* then up to MaxToggles clicks on the review buttons, and saves.          *)
(* lastToggle records the effective status of the toggled criterion before *)
(* and after the click.                                                    *)
(***************************************************************************)
ReviewIds == {Id1a1, Id2b1}

InitReview ==
    /\ NormIdle /\ ScoreIdle /\ GuideIdle /\ LoadIdle /\ NwIdle
    /\ SettingsIdle /\ AssessIdle /\ MigrateIdle /\ ScaleIdle
    /\ aiNeedsReview \in [ReviewIds -> BOOLEAN]
    /\ manualReviewFlags = <<>>
    /\ lastToggle = NoToggle /\ toggleCount = 0
    /\ aiFlags = {}

toggleNeedsReview ==
    /\ toggleCount < MaxToggles
    /\ \E criterionId \in DOMAIN aiNeedsReview :
        /\ manualReviewFlags' = Toggled(manualReviewFlags, criterionId)
        /\ lastToggle' =
               [id |-> criterionId,
                before |-> getNeedsReview(manualReviewFlags, criterionId,
                                          aiNeedsReview[criterionId]),
                after |-> getNeedsReview(
                              Toggled(manualReviewFlags, criterionId),
                              criterionId, aiNeedsReview[criterionId]),
                made |-> TRUE]
    /\ toggleCount' = toggleCount + 1
    /\ UNCHANGED <<aiNeedsReview, aiFlags, otherThanReview>>

\* The aiFlags of onSaveAssessment (lines 481-489): the criteria whose
\* effective status is needs review.
SaveAssessment ==
    /\ aiFlags' = {id \in DOMAIN aiNeedsReview :
                      getNeedsReview(manualReviewFlags, id, aiNeedsReview[id])}
    /\ UNCHANGED <<aiNeedsReview, manualReviewFlags, lastToggle, toggleCount,
                   otherThanReview>>

NextReview == toggleNeedsReview \/ SaveAssessment

SpecReview == InitReview /\ [][NextReview]_vars

(***************************************************************************)
(* Claims about the review toggle.                                         *)
(***************************************************************************)
\* C30: every call of toggleNeedsReview(criterionId) flips the criterion's
\* effective needs-review status as getNeedsReview returns it, for either
\* value of the AI flag and after any earlier toggles.
C30_ToggleFlips == lastToggle.made => lastToggle.after # lastToggle.before

\* The first toggle of a criterion the AI flagged: it stays flagged.
C30_FirstToggleOfFlagged ==
    /\ lastToggle.made
    /\ toggleCount = 1
    /\ aiNeedsReview[lastToggle.id]
    /\ lastToggle.before /\ lastToggle.after

====
